---- MODULE Spec2Model ----
(***************************************************************************)
(* Model of the poster rendering core of meetmeat-frontend:                *)
(*   src/components/poster/useImageLoader.ts  (image cache and hook)       *)
(*   src/components/poster/PosterCanvas.tsx   (fonts, colours, draw tree)  *)
(*   src/app/create/export.tsx                (export screen)              *)
(***************************************************************************)
EXTENDS Integers, Sequences, FiniteSets, TLC

(***************************************************************************)
(* Bounds of the model.                                                    *)
(***************************************************************************)
\* fetches issued in one run of the model
MaxFetch == 3
\* fetches issued in one run in which urls change
MaxUrlFetch == 2
\* PosterCanvas instances mounted in one run of the model
MaxInst == 2
\* url changes of mounted hooks in one run of the model
MaxUrlChange == 1
\* PosterCanvas instances mounted in one run over all descriptors
MaxSession == 1
\* calls of handleExport in one run of the model
MaxRuns == 2
\* ExportScreen instances mounted in one run of the model
MaxScreens == 2
\* length of the urls argument of useMultipleImages
MaxLen == 2
\* renders of the components that read the Skia loader
MaxRenders == 6
\* runs of the hexPath factory in one mounted PosterCanvas
MaxPaths == 3
\* mounts of LoadingScreen, and runs of its mount effect in one instance
MaxVisits == 2
MaxInvoke == 2
\* calls of execute of one useAsync hook, and of mutate of one useMutation hook
MaxRequests == 3
MaxCalls == 4
\* profiles the server has ever made
MaxProfiles == 3

(***************************************************************************)
(* Values.                                                                 *)
(***************************************************************************)
\* image URLs a descriptor may name
Urls == {"a", "b"}
\* the url argument when it is undefined or ''
NoUrl == "none"
\* the three useImageLoader call sites of PosterCanvas
Hooks == {"logo", "hero", "photo"}
\* SkImage | null: a decoded image is identified by its url and its decode
NoImage == [url |-> NoUrl, id |-> 0]
Images == [url : Urls, id : 1..MaxFetch]
\* FontSet | null
NoFonts == [font |-> "null", titleFont |-> "null", smallFont |-> "null",
            badgeFont |-> "null", nameFont |-> "null"]
FontSet == [font |-> "base16", titleFont |-> "bold28", smallFont |-> "base12",
            badgeFont |-> "bold18", nameFont |-> "bold22"]
\* maxAttempts of useSkiaFonts
maxAttempts == 20
\* delay of every setTimeout(tryLoad, 100)
RetryDelayMs == 100

VARIABLES
  imageCache,     \* module-level cache: url -> image or NoImage
  inst,           \* number of the PosterCanvas instance mounted last (0: none yet)
  mounted,        \* a PosterCanvas instance is mounted
  mountedRef,     \* mountedRef.current of each instance's hooks
  url,            \* url argument of each hook at the last render
  image,          \* state `image` of each hook
  effectPending,  \* the [url] effect of the hook is scheduled and has not run
  loads,          \* loadImage() calls in flight
  nFetch,         \* fetches issued so far
  nChange,        \* url changes made so far
  curLoad,        \* id of the load the hook's last effect started (0: none)
  settled,        \* outcome of that load: "idle", "pending", "ok", "failed"
  lastOk,         \* the loadImage() call whose decode succeeded last
  fonts,          \* state `fonts` of the mounted instance
  poll,           \* per instance: closure of the font effect (attempts, timer)
  desc,           \* props event and user of the mounted instance (text part)
  hexPath,        \* memoised hexPath of the mounted instance
  memo,           \* the deps that hexPath was made for and the runs of its factory
  expInst,        \* number of the ExportScreen instance mounted last (0: none yet)
  expMounted,     \* an ExportScreen instance is mounted
  isExporting,    \* state `isExporting` of the mounted ExportScreen
  selectedPlatform, \* state `selectedPlatform` of the mounted ExportScreen
  runs,           \* the calls of handleExport made so far
  pColor,         \* layout resolution: primaryColor
  pLayout,        \* layout resolution: the layout prop
  pPlan,          \* layout resolution: the resolved plan (<<>> before)
  multi,          \* the component calling useMultipleImages: its hook state
  batches,        \* loadImages() calls in flight
  skia,           \* async-skia: the loader of promiseMap and the last renders
  hexArgs,        \* createHexagonPath: the arguments cx, cy, radius
  hexSvg,         \* createHexagonPath: the path it returned (<<>> before the call)
  store,          \* usePosterCreationStore: the zustand state
  flow,           \* the route on top, the LoadingScreen instance and its generate runs
  async,          \* one useAsync hook: its state, its ref and its requests in flight
  mutation,       \* one useMutation hook: its state and its mutate calls in flight
  profiles        \* useProfiles: the local list and the mutation that succeeded last

loaderVars == <<imageCache, url, image, effectPending, loads, nFetch, nChange, curLoad, settled,
                lastOk>>
canvasVars == <<inst, mounted, mountedRef, fonts, poll, desc, hexPath, memo>>
exportVars == <<expInst, expMounted, isExporting, selectedPlatform, runs>>
layoutVars == <<pColor, pLayout, pPlan>>
multiVars == <<multi, batches>>
hexVars == <<hexArgs, hexSvg>>
hookVars == <<store, flow, async, mutation, profiles>>
vars == <<loaderVars, canvasVars, exportVars, layoutVars, multiVars, skia, hexVars, hookVars>>
\* the variables outside PosterCanvas, outside ExportScreen, outside the layout resolution
outsidePoster == <<exportVars, layoutVars, multiVars, skia, hexVars, hookVars>>
outsideExport == <<loaderVars, canvasVars, layoutVars, multiVars, skia, hexVars, hookVars>>
outsideLayout == <<loaderVars, canvasVars, exportVars, multiVars, skia, hexVars, hookVars>>
outsideSkia == <<loaderVars, canvasVars, exportVars, layoutVars, multiVars, hexVars, hookVars>>
outsideHexagon == <<loaderVars, canvasVars, exportVars, layoutVars, multiVars, skia, hookVars>>
outsideHooks == <<loaderVars, canvasVars, exportVars, layoutVars, multiVars, skia, hexVars>>
outsideFlow == <<outsideHooks, async, mutation, profiles>>
outsideAsync == <<outsideHooks, store, flow, mutation, profiles>>
outsideMutation == <<outsideHooks, store, flow, async, profiles>>
outsideProfiles == <<outsideHooks, store, flow, async, mutation>>
\* what useMultipleImages leaves alone: all but the cache and the fetch count
outsideMulti == <<url, image, effectPending, loads, nChange, curLoad, settled, lastOk,
                  canvasVars, exportVars, layoutVars, skia, hexVars, hookVars>>

Insts == 1..MaxInst

\* the text part of the props: is event non-null, has it a startDate, is
\* locationText non-empty, is user.company non-empty
Descs == {d \in [event : BOOLEAN, startDate : BOOLEAN, location : BOOLEAN, company : BOOLEAN] :
            ~d.event => (~d.startDate /\ ~d.location)}
NoDesc == [event |-> FALSE, startDate |-> FALSE, location |-> FALSE, company |-> FALSE]
\* Skia.Path.MakeFromSVGString(...) gives a path, or null (also when it throws)
HexPaths == {"hexagon", "null"}
\* the props width and height of the canvas
Sizes == [width : {300, 320}, height : {360, 384}]
\* PREVIEW_WIDTH and PREVIEW_WIDTH * 1.2 on a window 348 wide
PreviewSize == [width |-> 300, height |-> 360]
\* [width, photoY, photoRadius] in units of 1, 1/10 and 1/100
Deps(size) == <<size.width, size.height * 5, size.width * 15>>
NoMemo == [deps |-> <<0, 0, 0>>, calls |-> 0]
NoLoad == [inst |-> 0, hook |-> "none", url |-> NoUrl, id |-> 0]
NoPoll == [attempts |-> 0, timer |-> "none", delay |-> 0, fired |-> 0]

TypeOK ==
  /\ imageCache \in [Urls -> Images \cup {NoImage}]
  /\ inst \in 0..MaxInst
  /\ mounted \in BOOLEAN
  /\ mountedRef \in [Insts -> BOOLEAN]
  /\ url \in [Hooks -> Urls \cup {NoUrl}]
  /\ image \in [Hooks -> Images \cup {NoImage}]
  /\ effectPending \in [Hooks -> BOOLEAN]
  /\ loads \subseteq [inst : Insts, hook : Hooks, url : Urls, id : 1..MaxFetch]
  /\ nFetch \in 0..MaxFetch
  /\ nChange \in 0..MaxUrlChange
  /\ curLoad \in [Hooks -> 0..MaxFetch]
  /\ settled \in [Hooks -> {"idle", "pending", "ok", "failed"}]
  /\ fonts \in {NoFonts, FontSet}
  /\ poll \in [Insts -> [attempts : 0..maxAttempts, timer : {"none", "first", "later"},
                         delay : {0, RetryDelayMs}, fired : 0..maxAttempts]]
  /\ desc \in Descs
  /\ hexPath \in HexPaths
  /\ memo \in [deps : {Deps(s) : s \in Sizes} \cup {NoMemo.deps}, calls : 0..MaxPaths]

InitPoster ==
  /\ imageCache = [u \in Urls |-> NoImage]
  /\ inst = 0
  /\ mounted = FALSE
  /\ mountedRef = [i \in Insts |-> FALSE]
  /\ url = [h \in Hooks |-> NoUrl]
  /\ image = [h \in Hooks |-> NoImage]
  /\ effectPending = [h \in Hooks |-> FALSE]
  /\ loads = {}
  /\ nFetch = 0
  /\ nChange = 0
  /\ curLoad = [h \in Hooks |-> 0]
  /\ settled = [h \in Hooks |-> "idle"]
  /\ lastOk = NoLoad
  /\ fonts = NoFonts
  /\ poll = [i \in Insts |-> NoPoll]
  /\ desc = NoDesc
  /\ hexPath = "null"
  /\ memo = NoMemo

(***************************************************************************)
(* useImageLoader                                                          *)
(***************************************************************************)
\* useState initialiser: url ? imageCache[url] ?? null : null
InitialImage(u) == IF u # NoUrl THEN imageCache[u] ELSE NoImage

\* the part of the state the [url] effects write
EffectState == [image |-> image, loads |-> loads, nFetch |-> nFetch,
                curLoad |-> curLoad, settled |-> settled]

\* the effect finds the url absent: setImage(null), no fetch
EffectNoUrl(s, h) ==
  [s EXCEPT !.image[h] = NoImage, !.curLoad[h] = 0, !.settled[h] = "idle"]

\* the effect finds the url in the cache: setImage(imageCache[url]), no fetch
EffectCacheHit(s, h) ==
  [s EXCEPT !.image[h] = imageCache[url[h]], !.curLoad[h] = 0, !.settled[h] = "idle"]

\* the fetch shared with a load of the same url that is in flight
EffectFetchSingleFlight(s, h) ==
  IF \E l \in s.loads : l.url = url[h]
  THEN LET l == CHOOSE k \in s.loads : k.url = url[h]
       IN [s EXCEPT !.curLoad[h] = l.id, !.settled[h] = "pending"]
  ELSE [s EXCEPT !.nFetch = @ + 1,
                 !.loads = @ \cup {[inst |-> inst, hook |-> h, url |-> url[h], id |-> s.nFetch + 1]},
                 !.curLoad[h] = s.nFetch + 1,
                 !.settled[h] = "pending"]

\* otherwise loadImage() runs up to its first await: fetch(url) is issued
EffectFetch(s, h) ==
  [s EXCEPT !.nFetch = @ + 1,
            !.loads = @ \cup {[inst |-> inst, hook |-> h, url |-> url[h], id |-> s.nFetch + 1]},
            !.curLoad[h] = s.nFetch + 1,
            !.settled[h] = "pending"]

\* the effect with the cache lookup left out: every present url is fetched
UrlEffectNoCache(s, h) ==
  IF ~effectPending[h] THEN s
  ELSE IF url[h] = NoUrl THEN EffectNoUrl(s, h)
  ELSE EffectFetch(s, h)

\* body of useEffect(..., [url]) of one hook, when it is scheduled
UrlEffect(s, h) ==
  IF ~effectPending[h] THEN s
  ELSE IF url[h] = NoUrl THEN EffectNoUrl(s, h)
  ELSE IF imageCache[url[h]] # NoImage THEN EffectCacheHit(s, h)
  ELSE EffectFetch(s, h)

\* the scheduled effects of one commit run together, in the order of the
\* hook calls of PosterCanvas: logo, hero, photo
AfterEffects == UrlEffect(UrlEffect(UrlEffect(EffectState, "logo"), "hero"), "photo")

FlushEffects ==
  /\ mounted
  /\ \E h \in Hooks : effectPending[h]
  /\ AfterEffects.nFetch <= MaxFetch
  /\ effectPending' = [h \in Hooks |-> FALSE]
  /\ image' = AfterEffects.image
  /\ loads' = AfterEffects.loads
  /\ nFetch' = AfterEffects.nFetch
  /\ curLoad' = AfterEffects.curLoad
  /\ settled' = AfterEffects.settled
  /\ UNCHANGED <<imageCache, url, nChange, lastOk, canvasVars, outsidePoster>>

\* the props change the url of one hook: a render with the new url, whose
\* [url] effect is scheduled; pending effects are flushed before a render
ChangeUrl(h, u) ==
  /\ mounted
  /\ \A g \in Hooks : ~effectPending[g]
  /\ u # url[h]
  /\ nChange < MaxUrlChange
  /\ nChange' = nChange + 1
  /\ url' = [url EXCEPT ![h] = u]
  /\ effectPending' = [effectPending EXCEPT ![h] = TRUE]
  /\ UNCHANGED <<imageCache, image, loads, nFetch, curLoad, settled, lastOk, canvasVars,
                 outsidePoster>>

\* is this load the one the hook's current url is waiting for
IsCurrent(l) == mounted /\ l.inst = inst /\ curLoad[l.hook] = l.id

\* the resolution with the cache write inside the test of mountedRef.current
LoadOkGated(l) ==
  /\ l \in loads
  /\ loads' = loads \ {l}
  /\ LET loadedImage == [url |-> l.url, id |-> l.id] IN
       /\ imageCache' = IF mountedRef[l.inst]
                        THEN [imageCache EXCEPT ![l.url] = loadedImage]
                        ELSE imageCache
       /\ image' = IF mountedRef[l.inst]
                   THEN [image EXCEPT ![l.hook] = loadedImage]
                   ELSE image
  /\ settled' = IF IsCurrent(l) THEN [settled EXCEPT ![l.hook] = "ok"] ELSE settled
  /\ lastOk' = l
  /\ UNCHANGED <<url, effectPending, nFetch, nChange, curLoad, canvasVars, outsidePoster>>

\* loadImage() resolves: fetch, arrayBuffer and decode succeeded
LoadOk(l) ==
  /\ l \in loads
  /\ loads' = loads \ {l}
  /\ LET loadedImage == [url |-> l.url, id |-> l.id] IN
       /\ imageCache' = [imageCache EXCEPT ![l.url] = loadedImage]
       /\ image' = IF mountedRef[l.inst]
                   THEN [image EXCEPT ![l.hook] = loadedImage]
                   ELSE image
  /\ settled' = IF IsCurrent(l) THEN [settled EXCEPT ![l.hook] = "ok"] ELSE settled
  /\ lastOk' = l
  /\ UNCHANGED <<url, effectPending, nFetch, nChange, curLoad, canvasVars, outsidePoster>>

\* fetch or arrayBuffer threw (caught, console.warn), or the decode gave null
LoadFail(l) ==
  /\ l \in loads
  /\ loads' = loads \ {l}
  /\ settled' = IF IsCurrent(l) THEN [settled EXCEPT ![l.hook] = "failed"] ELSE settled
  /\ UNCHANGED <<imageCache, url, image, effectPending, nFetch, nChange, curLoad, lastOk,
                 canvasVars, outsidePoster>>

\* clearImageCache(): every key of the cache is set to null
ClearImageCache ==
  /\ \E u \in Urls : imageCache[u] # NoImage
  /\ imageCache' = [u \in Urls |-> NoImage]
  /\ UNCHANGED <<url, image, effectPending, loads, nFetch, nChange, curLoad, settled, lastOk,
                 canvasVars, outsidePoster>>

(***************************************************************************)
(* useMultipleImages                                                       *)
(***************************************************************************)
\* the urls argument: a list of urls, some of them absent
UrlLists == UNION {[1..n -> Urls \cup {NoUrl}] : n \in 0..MaxLen}
NoMulti == [mounted |-> FALSE, inst |-> 0, urls |-> <<>>, images |-> <<>>,
            effectPending |-> FALSE]

InitMulti ==
  /\ multi = NoMulti
  /\ batches = {}

\* useState initialiser: urls.map(url => url ? imageCache[url] ?? null : null)
InitialImages(us) == [i \in 1..Len(us) |-> InitialImage(us[i])]

\* first render of a component that calls useMultipleImages(us)
MultiMount(us) ==
  /\ ~multi.mounted
  /\ multi.inst < MaxInst
  /\ multi' = [mounted |-> TRUE, inst |-> multi.inst + 1, urls |-> us,
               images |-> InitialImages(us), effectPending |-> TRUE]
  /\ UNCHANGED <<batches, imageCache, nFetch, outsideMulti>>

\* a render with another urls argument: the [urlsKey, urls] effect is scheduled
MultiChangeUrls(us) ==
  /\ multi.mounted /\ ~multi.effectPending
  /\ us # multi.urls
  /\ nChange < MaxUrlChange
  /\ nChange' = nChange + 1
  /\ multi' = [multi EXCEPT !.urls = us, !.effectPending = TRUE]
  /\ UNCHANGED <<batches, imageCache, nFetch, url, image, effectPending, loads, curLoad,
                 lastOk, settled, canvasVars, exportVars, layoutVars, skia, hexVars,
                 hookVars>>

\* the map callback of index i up to its first await, the k-th fetch of the
\* batch being issued: null, the cached image, or a fetch in flight
SlotStart(us, i, k) ==
  IF us[i] = NoUrl THEN [state |-> "done", result |-> NoImage, id |-> 0]
  ELSE IF imageCache[us[i]] # NoImage
       THEN [state |-> "done", result |-> imageCache[us[i]], id |-> 0]
       ELSE [state |-> "fetching", result |-> NoImage, id |-> nFetch + k]

\* number of fetches the callbacks of the indices 1..i issue
Fetches(us, i) ==
  Cardinality({j \in 1..i : us[j] # NoUrl /\ imageCache[us[j]] = NoImage})

AllDone(slots) == \A i \in 1..Len(slots) : slots[i].state = "done"
Results(slots) == [i \in 1..Len(slots) |-> slots[i].result]

\* Promise.all resolves with the results in index order; setImages(results)
\* if mountedRef.current of the instance the batch belongs to
ApplyResults(m, b, slots) ==
  IF m.mounted /\ m.inst = b.inst THEN [m EXCEPT !.images = Results(slots)] ELSE m

\* the effect runs: loadImages() up to its first await; a batch without a
\* fetch resolves in the same turn
MultiEffect ==
  /\ multi.mounted /\ multi.effectPending
  /\ LET us == multi.urls
         slots == [i \in 1..Len(us) |-> SlotStart(us, i, Fetches(us, i))]
         b == [inst |-> multi.inst, urls |-> us, slots |-> slots]
         m == [multi EXCEPT !.effectPending = FALSE]
     IN /\ nFetch + Fetches(us, Len(us)) <= MaxFetch
        /\ nFetch' = nFetch + Fetches(us, Len(us))
        /\ IF AllDone(slots)
           THEN multi' = ApplyResults(m, b, slots) /\ batches' = batches
           ELSE multi' = m /\ batches' = batches \cup {b}
  /\ UNCHANGED <<imageCache, outsideMulti>>

\* one callback of a batch settles with `result`; when it is the last one
\* Promise.all resolves
SlotSettle(b, i, result) ==
  LET slots == [b.slots EXCEPT ![i] = [state |-> "done", result |-> result, id |-> @.id]]
  IN IF AllDone(slots)
     THEN multi' = ApplyResults(multi, b, slots) /\ batches' = batches \ {b}
     ELSE multi' = multi /\ batches' = (batches \ {b}) \cup {[b EXCEPT !.slots = slots]}

\* fetch, arrayBuffer and decode of index i succeeded: cache write, the image
MultiFetchOk(b, i) ==
  /\ b \in batches /\ i \in 1..Len(b.slots) /\ b.slots[i].state = "fetching"
  /\ LET loadedImage == [url |-> b.urls[i], id |-> b.slots[i].id]
     IN /\ imageCache' = [imageCache EXCEPT ![b.urls[i]] = loadedImage]
        /\ SlotSettle(b, i, loadedImage)
  /\ UNCHANGED <<nFetch, outsideMulti>>

\* fetch or arrayBuffer threw (caught), or the decode gave null: null
MultiFetchFail(b, i) ==
  /\ b \in batches /\ i \in 1..Len(b.slots) /\ b.slots[i].state = "fetching"
  /\ SlotSettle(b, i, NoImage)
  /\ UNCHANGED <<imageCache, nFetch, outsideMulti>>

\* the component unmounts: mountedRef.current = false
MultiUnmount ==
  /\ multi.mounted /\ ~multi.effectPending
  /\ multi' = [NoMulti EXCEPT !.inst = multi.inst]
  /\ UNCHANGED <<batches, imageCache, nFetch, outsideMulti>>

NextMulti ==
  \/ \E us \in UrlLists : MultiMount(us)
  \/ \E us \in UrlLists : MultiChangeUrls(us)
  \/ MultiEffect
  \/ \E b \in batches, i \in 1..MaxLen : MultiFetchOk(b, i)
  \/ \E b \in batches, i \in 1..MaxLen : MultiFetchFail(b, i)
  \/ MultiUnmount

(***************************************************************************)
(* async-skia: AsyncSkia and useSkiaLoaded                                 *)
(***************************************************************************)
\* the components that call getResolvedPromise()
SkiaReaders == {"AsyncSkia", "PosterCanvas"}
\* promiseMap has no entry for 'skia'
NoLoader == "none"

InitSkia ==
  skia = [status |-> NoLoader, out |-> [c \in SkiaReaders |-> "none"], last |-> "none",
          nRender |-> 0, nLoad |-> 0]

\* read() with the test of the pending status left out
ReadNoSuspend(status) ==
  IF status = "error" THEN "error" ELSE "output"

\* read() of the wrapper: throw suspender, throw result, or return
Read(status) ==
  IF status = "pending" THEN "suspended"
  ELSE IF status = "error" THEN "error"
  ELSE "output"

\* the call that drops a loader whose promise was rejected and makes a new one
getSuspendingPromiseRetry(c) ==
  /\ skia.nRender < MaxRenders
  /\ LET fresh == skia.status \in {NoLoader, "error"}
         status == IF fresh THEN "pending" ELSE skia.status
     IN skia' = [skia EXCEPT !.status = status, !.out[c] = Read(status), !.last = c,
                             !.nRender = @ + 1,
                             !.nLoad = IF fresh THEN @ + 1 ELSE @]
  /\ UNCHANGED outsideSkia

\* a render of c calls getResolvedPromise(): the loader is made on the first
\* call (status pending, LoadSkiaWeb() started), then read
getSuspendingPromise(c) ==
  /\ skia.nRender < MaxRenders
  /\ LET fresh == skia.status = NoLoader
         status == IF fresh THEN "pending" ELSE skia.status
     IN skia' = [skia EXCEPT !.status = status, !.out[c] = Read(status), !.last = c,
                             !.nRender = @ + 1,
                             !.nLoad = IF fresh THEN @ + 1 ELSE @]
  /\ UNCHANGED outsideSkia

\* the promise of LoadSkiaWeb() fulfils: status = 'success'
LoadSkiaWebResolve ==
  /\ skia.status = "pending"
  /\ skia' = [skia EXCEPT !.status = "success"]
  /\ UNCHANGED outsideSkia

\* the promise of LoadSkiaWeb() rejects: status = 'error'
LoadSkiaWebReject ==
  /\ skia.status = "pending"
  /\ skia' = [skia EXCEPT !.status = "error"]
  /\ UNCHANGED outsideSkia

NextSkia ==
  \/ \E c \in SkiaReaders : getSuspendingPromise(c)
  \/ LoadSkiaWebResolve
  \/ LoadSkiaWebReject

(***************************************************************************)
(* useSkiaFonts                                                            *)
(***************************************************************************)
\* tryLoadFonts(): the whole FontSet, or null when Skia throws
TryLoadFonts == {FontSet, NoFonts}

\* the effect body for a given value of `fonts`: nothing when fonts are
\* there, else attempts = 0 and the first setTimeout(tryLoad, 100)
FontEffect(f) ==
  IF f # NoFonts THEN NoPoll
  ELSE [attempts |-> 0, timer |-> "first", delay |-> RetryDelayMs, fired |-> 0]

\* PosterCanvas mounts: first render of the hooks and the mount effects of
\* useSkiaFonts (the [url] effects of the image hooks run as FlushEffects)
Mount(us, f, d, p) ==
  /\ ~mounted
  /\ ~d.event => (us["logo"] = NoUrl /\ us["hero"] = NoUrl)
  /\ desc' = d
  /\ hexPath' = p
  /\ memo' = [deps |-> Deps(PreviewSize), calls |-> 1]
  /\ inst < MaxInst
  /\ inst' = inst + 1
  /\ mounted' = TRUE
  /\ mountedRef' = [mountedRef EXCEPT ![inst + 1] = TRUE]
  /\ url' = us
  /\ image' = [h \in Hooks |-> InitialImage(us[h])]
  /\ effectPending' = [h \in Hooks |-> TRUE]
  /\ curLoad' = [h \in Hooks |-> 0]
  /\ settled' = [h \in Hooks |-> "idle"]
  /\ fonts' = f
  /\ poll' = [poll EXCEPT ![inst + 1] = FontEffect(f)]
  /\ UNCHANGED <<imageCache, loads, nFetch, nChange, lastOk, outsidePoster>>

\* tryLoad() with the budget test written attempts <= maxAttempts
TryLoadOffByOne(i, loaded) ==
  /\ poll[i].timer # "none"
  /\ IF loaded # NoFonts
     THEN /\ fonts' = IF mounted /\ inst = i THEN loaded ELSE fonts
          /\ poll' = [poll EXCEPT ![i] = [@ EXCEPT !.timer = "none", !.delay = 0,
                                                   !.fired = @ + 1]]
     ELSE /\ fonts' = fonts
          /\ poll' = [poll EXCEPT ![i] =
                 IF @.attempts + 1 <= maxAttempts
                 THEN [@ EXCEPT !.attempts = @ + 1, !.timer = "later",
                                !.delay = RetryDelayMs, !.fired = @ + 1]
                 ELSE [@ EXCEPT !.attempts = @ + 1, !.timer = "none",
                                !.delay = 0, !.fired = @ + 1]]
  /\ UNCHANGED <<loaderVars, inst, mounted, mountedRef, desc, hexPath, memo, outsidePoster>>

\* tryLoad() that arms the next timer also after setFonts(loaded)
TryLoadKeepsPolling(i, loaded) ==
  /\ poll[i].timer # "none"
  /\ IF loaded # NoFonts
     THEN /\ fonts' = IF mounted /\ inst = i THEN loaded ELSE fonts
          /\ poll' = [poll EXCEPT ![i] =
                 IF @.attempts + 1 < maxAttempts
                 THEN [@ EXCEPT !.attempts = @ + 1, !.timer = "later",
                                !.delay = RetryDelayMs, !.fired = @ + 1]
                 ELSE [@ EXCEPT !.attempts = @ + 1, !.timer = "none",
                                !.delay = 0, !.fired = @ + 1]]
     ELSE /\ fonts' = fonts
          /\ poll' = [poll EXCEPT ![i] =
                 IF @.attempts + 1 < maxAttempts
                 THEN [@ EXCEPT !.attempts = @ + 1, !.timer = "later",
                                !.delay = RetryDelayMs, !.fired = @ + 1]
                 ELSE [@ EXCEPT !.attempts = @ + 1, !.timer = "none",
                                !.delay = 0, !.fired = @ + 1]]
  /\ UNCHANGED <<loaderVars, inst, mounted, mountedRef, desc, hexPath, memo, outsidePoster>>

\* tryLoad() of instance i runs when its timer fires
TryLoad(i, loaded) ==
  /\ poll[i].timer # "none"
  /\ IF loaded # NoFonts
     THEN /\ fonts' = IF mounted /\ inst = i THEN loaded ELSE fonts
          /\ poll' = [poll EXCEPT ![i] = [@ EXCEPT !.timer = "none", !.delay = 0,
                                                   !.fired = @ + 1]]
     ELSE /\ fonts' = fonts
          /\ poll' = [poll EXCEPT ![i] =
                 IF @.attempts + 1 < maxAttempts
                 THEN [@ EXCEPT !.attempts = @ + 1, !.timer = "later",
                                !.delay = RetryDelayMs, !.fired = @ + 1]
                 ELSE [@ EXCEPT !.attempts = @ + 1, !.timer = "none",
                                !.delay = 0, !.fired = @ + 1]]
  /\ UNCHANGED <<loaderVars, inst, mounted, mountedRef, desc, hexPath, memo, outsidePoster>>

\* PosterCanvas unmounts: mountedRef.current = false in each hook, and the
\* font effect's cleanup clearTimeout(timeoutId) of the first timer
Unmount ==
  /\ mounted
  /\ \A g \in Hooks : ~effectPending[g]
  /\ mounted' = FALSE
  /\ mountedRef' = [mountedRef EXCEPT ![inst] = FALSE]
  /\ url' = [h \in Hooks |-> NoUrl]
  /\ image' = [h \in Hooks |-> NoImage]
  /\ curLoad' = [h \in Hooks |-> 0]
  /\ settled' = [h \in Hooks |-> "idle"]
  /\ fonts' = NoFonts
  /\ desc' = NoDesc
  /\ hexPath' = "null"
  /\ memo' = NoMemo
  /\ poll' = [poll EXCEPT ![inst] =
                 IF @.timer = "first" THEN [@ EXCEPT !.timer = "none", !.delay = 0] ELSE @]
  /\ UNCHANGED <<imageCache, effectPending, loads, nFetch, nChange, lastOk, inst, outsidePoster>>

\* a render with new props in which the hexPath factory runs whatever the deps
RerenderNoMemo(size, d, p) ==
  /\ mounted
  /\ d.event = desc.event
  /\ ~d.event => (~d.startDate /\ ~d.location)
  /\ memo.calls < MaxPaths
  /\ desc' = d
  /\ hexPath' = p
  /\ memo' = [deps |-> Deps(size), calls |-> memo.calls + 1]
  /\ UNCHANGED <<loaderVars, inst, mounted, mountedRef, fonts, poll, outsidePoster>>

\* the parent renders PosterCanvas again with props width, height and new
\* texts: useMemo runs its factory when one of [width, photoY, photoRadius]
\* differs from the last render's, else it returns the stored hexPath
Rerender(size, d, p) ==
  /\ mounted
  /\ d.event = desc.event
  /\ ~d.event => (~d.startDate /\ ~d.location)
  /\ desc' = d
  /\ IF Deps(size) # memo.deps
     THEN /\ memo.calls < MaxPaths
          /\ hexPath' = p
          /\ memo' = [deps |-> Deps(size), calls |-> memo.calls + 1]
     ELSE UNCHANGED <<hexPath, memo>>
  /\ UNCHANGED <<loaderVars, inst, mounted, mountedRef, fonts, poll, outsidePoster>>

(***************************************************************************)
(* PosterCanvas: the draw tree of one render                               *)
(***************************************************************************)
\* one element of the tree: a text carries its font, an image its image
Layer(name, font, img) ==
  [layer |-> name, font |-> font, image |-> img, text |-> "", path |-> "none"]
Shape(name) == Layer(name, "none", NoImage)
Text(name, font, text) ==
  [layer |-> name, font |-> font, image |-> NoImage, text |-> text, path |-> "none"]
\* a child of <Group clip={hexPath}>, and <Path path={hexPath}>
WithPath(hp, layer) == [layer EXCEPT !.path = hp]
\* event?.name ?? 'Event Name'
EventName(d) == IF d.event THEN "event.name" ELSE "Event Name"
Opt(cond, layer) == IF cond THEN <<layer>> ELSE <<>>

\* the children with the logo made to wait for the hero image
CanvasLayersCoupled(f, logoImage, heroImage, userPhoto, hp, d) ==
     <<Shape("fill"), Shape("gradient")>>
  \o Opt(heroImage # NoImage, Layer("hero", "none", heroImage))
  \o Opt(logoImage # NoImage /\ heroImage # NoImage, Layer("logo", "none", logoImage))
  \o <<Text("eventName", f.titleFont, EventName(d))>>
  \o Opt(d.startDate, Text("date", f.smallFont, "dateText"))
  \o <<Shape("badgeRect"), Text("badgeText", f.badgeFont, "I'm attending!")>>
  \o Opt(hp # "null" /\ userPhoto # NoImage, WithPath(hp, Layer("photo", "none", userPhoto)))
  \o Opt(hp # "null" /\ userPhoto = NoImage, WithPath(hp, Shape("placeholder")))
  \o Opt(hp # "null", WithPath(hp, Shape("outline")))
  \o <<Text("userName", f.nameFont, "user.name"), Text("userTitle", f.font, "user.title")>>
  \o Opt(d.company, Text("company", f.smallFont, "user.company"))
  \o Opt(d.location, Text("location", f.smallFont, "locationText"))

\* the children with the date drawn whether or not there is a start date
CanvasLayersDateAlways(f, logoImage, heroImage, userPhoto, hp, d) ==
     <<Shape("fill"), Shape("gradient")>>
  \o Opt(heroImage # NoImage, Layer("hero", "none", heroImage))
  \o Opt(logoImage # NoImage, Layer("logo", "none", logoImage))
  \o <<Text("eventName", f.titleFont, EventName(d))>>
  \o <<Text("date", f.smallFont, "dateText")>>
  \o <<Shape("badgeRect"), Text("badgeText", f.badgeFont, "I'm attending!")>>
  \o Opt(hp # "null" /\ userPhoto # NoImage, WithPath(hp, Layer("photo", "none", userPhoto)))
  \o Opt(hp # "null" /\ userPhoto = NoImage, WithPath(hp, Shape("placeholder")))
  \o Opt(hp # "null", WithPath(hp, Shape("outline")))
  \o <<Text("userName", f.nameFont, "user.name"), Text("userTitle", f.font, "user.title")>>
  \o Opt(d.company, Text("company", f.smallFont, "user.company"))
  \o Opt(d.location, Text("location", f.smallFont, "locationText"))

\* the <Canvas> children, in source order
CanvasLayers(f, logoImage, heroImage, userPhoto, hp, d) ==
     <<Shape("fill"), Shape("gradient")>>
  \o Opt(heroImage # NoImage, Layer("hero", "none", heroImage))
  \o Opt(logoImage # NoImage, Layer("logo", "none", logoImage))
  \o <<Text("eventName", f.titleFont, EventName(d))>>
  \o Opt(d.startDate, Text("date", f.smallFont, "dateText"))
  \o <<Shape("badgeRect"), Text("badgeText", f.badgeFont, "I'm attending!")>>
  \o Opt(hp # "null" /\ userPhoto # NoImage, WithPath(hp, Layer("photo", "none", userPhoto)))
  \o Opt(hp # "null" /\ userPhoto = NoImage, WithPath(hp, Shape("placeholder")))
  \o Opt(hp # "null", WithPath(hp, Shape("outline")))
  \o <<Text("userName", f.nameFont, "user.name"), Text("userTitle", f.font, "user.title")>>
  \o Opt(d.company, Text("company", f.smallFont, "user.company"))
  \o Opt(d.location, Text("location", f.smallFont, "locationText"))

\* the render without the early return: the canvas whatever fonts is
PosterCanvasRenderNoGate(f, logoImage, heroImage, userPhoto, hp, d) ==
  [kind |-> "canvas",
   layers |-> CanvasLayers(f, logoImage, heroImage, userPhoto, hp, d)]

\* the early return of the fallback <View> when fonts is null, else the canvas
PosterCanvasRender(f, logoImage, heroImage, userPhoto, hp, d) ==
  IF f = NoFonts
  THEN [kind |-> "placeholder", layers |-> <<>>]
  ELSE [kind |-> "canvas",
        layers |-> CanvasLayers(f, logoImage, heroImage, userPhoto, hp, d)]

\* what the mounted PosterCanvas shows
Output ==
  IF mounted
  THEN PosterCanvasRender(fonts, image["logo"], image["hero"], image["photo"], hexPath, desc)
  ELSE [kind |-> "none", layers |-> <<>>]

(***************************************************************************)
(* ExportScreen                                                            *)
(***************************************************************************)
\* ExportPlatform, the keys of EXPORT_SIZES and the ids of PLATFORMS
Platforms == {"linkedin", "instagram", "twitter", "facebook"}

InitExport ==
  /\ expInst = 0
  /\ expMounted = FALSE
  /\ isExporting = FALSE
  /\ selectedPlatform = "linkedin"
  /\ runs = <<>>

\* router.push('/create/export'): the screen mounts with its initial state
OpenExport ==
  /\ ~expMounted
  /\ expInst < MaxScreens
  /\ expInst' = expInst + 1
  /\ expMounted' = TRUE
  /\ isExporting' = FALSE
  /\ selectedPlatform' = "linkedin"
  /\ UNCHANGED <<runs, outsideExport>>

\* onPress of a platform card
SelectPlatform(p) ==
  /\ expMounted
  /\ p # selectedPlatform
  /\ selectedPlatform' = p
  /\ UNCHANGED <<expInst, expMounted, isExporting, runs, outsideExport>>

\* Button: isDisabled = disabled || loading, with loading = isExporting
ExportButtonDisabled == isExporting

\* setIsExporting(v) called by the run r: it sets the state of r's screen
SetIsExporting(r, v) ==
  IF expMounted /\ runs[r].inst = expInst THEN v ELSE isExporting

\* handleExport started by a press on a button that is never disabled
ExportPressNoDisable ==
  /\ expMounted
  /\ Len(runs) < MaxRuns
  /\ isExporting' = TRUE
  /\ runs' = Append(runs, [inst |-> expInst, platform |-> selectedPlatform, pc |-> "delay",
                           shared |-> "none", ready |-> 0, failed |-> 0])
  /\ UNCHANGED <<expInst, expMounted, selectedPlatform, outsideExport>>

\* handleExport up to its first await: setIsExporting(true), the 1000 ms timer
ExportPress ==
  /\ expMounted
  /\ ~ExportButtonDisabled
  /\ Len(runs) < MaxRuns
  /\ isExporting' = TRUE
  /\ runs' = Append(runs, [inst |-> expInst, platform |-> selectedPlatform, pc |-> "delay",
                           shared |-> "none", ready |-> 0, failed |-> 0])
  /\ UNCHANGED <<expInst, expMounted, selectedPlatform, outsideExport>>

\* the timer resolves: size and message are computed, Share.share is called
DelayElapsed(r) ==
  /\ runs[r].pc = "delay"
  /\ runs[r].platform \in Platforms
  /\ runs' = [runs EXCEPT ![r].pc = "share"]
  /\ UNCHANGED <<expInst, expMounted, isExporting, selectedPlatform, outsideExport>>

\* Share.share resolves: the 'Poster Ready!' alert, then finally
ShareResolve(r) ==
  /\ runs[r].pc = "share"
  /\ runs' = [runs EXCEPT ![r].pc = "done", ![r].shared = "ok", ![r].ready = @ + 1]
  /\ isExporting' = SetIsExporting(r, FALSE)
  /\ UNCHANGED <<expInst, expMounted, selectedPlatform, outsideExport>>

\* the reset written at the end of the try block instead of in finally
ShareRejectNoFinally(r) ==
  /\ runs[r].pc = "share"
  /\ runs' = [runs EXCEPT ![r].pc = "done", ![r].shared = "rejected", ![r].failed = @ + 1]
  /\ UNCHANGED <<expInst, expMounted, isExporting, selectedPlatform, outsideExport>>

\* Share.share rejects: catch shows 'Export Failed', then finally
ShareReject(r) ==
  /\ runs[r].pc = "share"
  /\ runs' = [runs EXCEPT ![r].pc = "done", ![r].shared = "rejected", ![r].failed = @ + 1]
  /\ isExporting' = SetIsExporting(r, FALSE)
  /\ UNCHANGED <<expInst, expMounted, selectedPlatform, outsideExport>>

\* the screen goes away: Back (router.back()), or a button of the
\* 'Poster Ready!' alert (reset(); router.replace('/(tabs)'))
CloseExport ==
  /\ expMounted
  /\ expMounted' = FALSE
  /\ isExporting' = FALSE
  /\ selectedPlatform' = "linkedin"
  /\ UNCHANGED <<expInst, runs, outsideExport>>

NextExport ==
  \/ OpenExport
  \/ \E p \in Platforms : SelectPlatform(p)
  \/ ExportPress
  \/ \E r \in 1..Len(runs) : DelayElapsed(r)
  \/ \E r \in 1..Len(runs) : ShareResolve(r)
  \/ \E r \in 1..Len(runs) : ShareReject(r)
  \/ CloseExport

(***************************************************************************)
(* Colours and layout resolution                                           *)
(***************************************************************************)
\* a colour string is the sequence of its characters
LowerDigits == <<"0", "1", "2", "3", "4", "5", "6", "7", "8", "9", "a", "b", "c", "d", "e", "f">>
UpperDigits == <<"0", "1", "2", "3", "4", "5", "6", "7", "8", "9", "A", "B", "C", "D", "E", "F">>
IsHexDigit(c) == \E k \in 1..16 : LowerDigits[k] = c \/ UpperDigits[k] = c
DigitValue(c) == (CHOOSE k \in 1..16 : LowerDigits[k] = c \/ UpperDigits[k] = c) - 1
\* the number NaN
NaN == -1

\* String.replace('#', ''): the first '#' is removed
RemoveHash(str) ==
  IF \E k \in 1..Len(str) : str[k] = "#"
  THEN LET k == CHOOSE i \in 1..Len(str) : str[i] = "#" /\ \A j \in 1..(i - 1) : str[j] # "#"
       IN SubSeq(str, 1, k - 1) \o SubSeq(str, k + 1, Len(str))
  ELSE str

\* String.substring(from, to)
Substring(str, from, to) ==
  SubSeq(str, from + 1, IF to < Len(str) THEN to ELSE Len(str))

\* parseInt(two characters, 16): the leading hex digits, NaN if there is none
ParseInt16(str) ==
  IF Len(str) = 0 \/ ~IsHexDigit(str[1]) THEN NaN
  ELSE IF Len(str) >= 2 /\ IsHexDigit(str[2])
       THEN 16 * DigitValue(str[1]) + DigitValue(str[2])
       ELSE DigitValue(str[1])

\* the colour strings a gradient stop can be
HexColor(str) == [fn |-> "hex", str |-> str, r |-> 0, g |-> 0, b |-> 0, a |-> "1"]
RgbColor(r, g, b) == [fn |-> "rgb", str |-> <<>>, r |-> r, g |-> g, b |-> b, a |-> "1"]
RgbaColor(r, g, b, a) == [fn |-> "rgba", str |-> <<>>, r |-> r, g |-> g, b |-> b, a |-> a]

(***************************************************************************)
(* IEEE 754 double arithmetic of the luminance, on exact integers          *)
(***************************************************************************)
\* a natural number is the list of its digits in base 2^15, lowest first
Base == 2^15
Limbs == 1..8
Zero == [i \in Limbs |-> 0]
One == [i \in Limbs |-> IF i = 1 THEN 1 ELSE 0]

RECURSIVE AddCarry(_, _, _)
AddCarry(a, b, i) == IF i = 1 THEN 0 ELSE (a[i - 1] + b[i - 1] + AddCarry(a, b, i - 1)) \div Base
Add(a, b) == [i \in Limbs |-> (a[i] + b[i] + AddCarry(a, b, i)) % Base]

\* n * k and n / k for a small k (k <= 2^15)
RECURSIVE MulCarry(_, _, _)
MulCarry(n, k, i) == IF i = 1 THEN 0 ELSE (n[i - 1] * k + MulCarry(n, k, i - 1)) \div Base
MulSmall(n, k) == [i \in Limbs |-> (n[i] * k + MulCarry(n, k, i)) % Base]

RECURSIVE DivRem(_, _, _)
DivRem(n, k, i) == IF i > 8 THEN 0 ELSE (DivRem(n, k, i + 1) * Base + n[i]) % k
DivSmall(n, k) == [q |-> [i \in Limbs |-> (DivRem(n, k, i + 1) * Base + n[i]) \div k],
                   r |-> DivRem(n, k, 1)]

\* number of binary digits of n
BitLen(n) ==
  IF n = Zero THEN 0
  ELSE LET top == CHOOSE i \in Limbs : n[i] # 0 /\ \A j \in Limbs : j > i => n[j] = 0
           bits == CHOOSE j \in 1..15 : n[top] < 2^j /\ n[top] >= 2^(j - 1)
       IN 15 * (top - 1) + bits

RECURSIVE ShiftLeft(_, _)
ShiftLeft(n, d) ==
  IF d = 0 THEN n
  ELSE IF d > 14 THEN ShiftLeft(MulSmall(n, 2^14), d - 14)
  ELSE MulSmall(n, 2^d)

\* n without its d lowest binary digits, and whether one of them was 1
RECURSIVE ShiftRight(_, _)
ShiftRight(n, d) ==
  IF d = 0 THEN [q |-> n, sticky |-> FALSE]
  ELSE LET k == IF d > 14 THEN 14 ELSE d
           low == DivSmall(n, 2^k)
           rest == ShiftRight(low.q, d - k)
       IN [q |-> rest.q, sticky |-> rest.sticky \/ low.r # 0]

\* a double is m * 2^e with m < 2^53 (0, or 2^52 <= m once normalised)
Normalize(x) ==
  LET len == BitLen(x.m)
  IN IF len = 0 THEN [m |-> Zero, e |-> 0]
     ELSE IF len < 53 THEN [m |-> ShiftLeft(x.m, 53 - len), e |-> x.e - (53 - len)]
     ELSE IF len > 53 THEN [m |-> ShiftRight(x.m, len - 53).q, e |-> x.e + (len - 53)]
     ELSE x

\* (n + f) * 2^e, with 0 <= f < 1 and `inexact` iff f > 0, rounded to the
\* nearest double, ties to even
RoundNearestEven(n, e, inexact) ==
  LET len == BitLen(n)
  IN IF len <= 53 THEN Normalize([m |-> n, e |-> e])
     ELSE LET d == len - 53
              a == ShiftRight(n, d - 1)
              guard == a.q[1] % 2 = 1
              q == DivSmall(a.q, 2).q
              sticky == a.sticky \/ inexact
              up == guard /\ (sticky \/ q[1] % 2 = 1)
          IN Normalize([m |-> IF up THEN Add(q, One) ELSE q, e |-> e + d])

\* the double x times the integer k, the sum of two doubles, x / k
FMulInt(x, k) == RoundNearestEven(MulSmall(x.m, k), x.e, FALSE)
FAdd(x, y) ==
  IF x.m = Zero THEN y
  ELSE IF y.m = Zero THEN x
  ELSE LET e == IF x.e < y.e THEN x.e ELSE y.e
       IN RoundNearestEven(Add(ShiftLeft(x.m, x.e - e), ShiftLeft(y.m, y.e - e)), e, FALSE)
FDivInt(x, k) ==
  IF x.m = Zero THEN x
  ELSE LET d == DivSmall(ShiftLeft(x.m, 12), k)
       IN RoundNearestEven(d.q, x.e - 12, d.r # 0)

\* x > 0.5 for a normalised double x
GreaterThanHalf(x) ==
  /\ x.m # Zero
  /\ \/ 53 + x.e > 0
     \/ 53 + x.e = 0 /\ x.m # ShiftLeft(One, 52)

\* the literals 0.299, 0.587 and 0.114 as doubles:
\* 5386305154335113 * 2^-54, 5287225962532962 * 2^-53, 8214565720323785 * 2^-56
Weight299 == [m |-> <<16777, 19136, 2883, 153, 0, 0, 0, 0>>, e |-> -54]
Weight587 == [m |-> <<4194, 29360, 8912, 150, 0, 0, 0, 0>>, e |-> -53]
Weight114 == [m |-> <<30409, 16252, 15466, 233, 0, 0, 0, 0>>, e |-> -56]

\* luminance > 0.5 for channels r, g, b; NaN > 0.5 is false
LuminanceAboveHalf(r, g, b) ==
  IF r = NaN \/ g = NaN \/ b = NaN THEN FALSE
  ELSE GreaterThanHalf(FDivInt(FAdd(FAdd(FMulInt(Weight299, r), FMulInt(Weight587, g)),
                                    FMulInt(Weight114, b)), 255))

DarkColor == <<"#", "1", "A", "1", "A", "2", "E">>
LightColor == <<"#", "F", "F", "F", "F", "F", "F">>

getContrastColor(bgColor) ==
  LET hex == RemoveHash(bgColor)
      r == ParseInt16(Substring(hex, 0, 2))
      g == ParseInt16(Substring(hex, 2, 4))
      b == ParseInt16(Substring(hex, 4, 6))
  IN IF LuminanceAboveHalf(r, g, b) THEN DarkColor ELSE LightColor

\* Math.floor of a double that is not negative and below 2^30
Floor(x) ==
  IF x.m = Zero THEN 0
  ELSE IF x.e >= 0 THEN ShiftLeft(x.m, x.e)[1] + Base * ShiftLeft(x.m, x.e)[2]
  ELSE ShiftRight(x.m, -x.e).q[1] + Base * ShiftRight(x.m, -x.e).q[2]

\* the literal 0.8 as a double: 7205759403792794 * 2^-53
Weight08 == [m |-> <<6554, 13107, 26214, 204, 0, 0, 0, 0>>, e |-> -53]

\* Math.floor(c * 0.8)
Darken(c) == IF c = NaN THEN NaN ELSE Floor(FMulInt(Weight08, c))
\* Math.min(c + 40, 255) without the clamp
LightenNoClamp(c) == IF c = NaN THEN NaN ELSE c + 40
\* Math.min(c + 40, 255)
Lighten(c) == IF c = NaN THEN NaN ELSE IF c + 40 < 255 THEN c + 40 ELSE 255

getGradientColors(primaryColor, layout) ==
  LET hex == RemoveHash(primaryColor)
      r == ParseInt16(Substring(hex, 0, 2))
      g == ParseInt16(Substring(hex, 2, 4))
      b == ParseInt16(Substring(hex, 4, 6))
  IN CASE layout = "modern" -> <<HexColor(primaryColor), RgbaColor(r, g, b, "0.7")>>
       [] layout = "minimal" -> <<HexColor(primaryColor), HexColor(primaryColor)>>
       [] layout = "bold" -> <<RgbColor(Darken(r), Darken(g), Darken(b)), HexColor(primaryColor)>>
       [] OTHER -> <<HexColor(primaryColor), RgbColor(Lighten(r), Lighten(g), Lighten(b))>>

\* TemplateLayout, and the layout prop left out
KnownLayouts == {"classic", "modern", "minimal", "bold"}
NoLayout == "undefined"
\* layout names a template record can carry at run time
LayoutProps == KnownLayouts \cup {NoLayout, "playful", "corporate", "unknown-variant"}

\* the plan PosterCanvas draws with: the default of the layout prop, the
\* gradient, and the positions as hundredths of the width and height
LayoutPlan(primaryColor, layoutProp) ==
  LET layout == IF layoutProp = NoLayout THEN "modern" ELSE layoutProp
  IN [gradient |-> getGradientColors(primaryColor, layout),
      titleY |-> 22, dateY |-> 28, badgeY |-> 32, badgeWidth |-> 45, badgeHeight |-> 6,
      photoX |-> 50, photoY |-> 50, photoRadius |-> 15,
      nameY |-> 72, userTitleY |-> 78, companyY |-> 83, locationY |-> 94]

Chars(s6) == <<"#">> \o s6
\* brand colours the resolution is run on
Colors == {Chars(<<"6", "C", "5", "C", "E", "7">>), Chars(<<"E", "7", "4", "C", "3", "C">>),
           Chars(<<"1", "A", "1", "A", "2", "E">>), Chars(<<"F", "F", "F", "F", "F", "F">>),
           Chars(<<"0", "0", "0", "0", "0", "0">>), Chars(<<"f", "f", "8", "8", "0", "0">>),
           Chars(<<"F", "F", "F">>), <<"2", "E", "C", "C", "7", "1">>}
DefaultColor == Chars(<<"6", "C", "5", "C", "E", "7">>)

InitLayoutIdle ==
  /\ pColor = DefaultColor
  /\ pLayout = NoLayout
  /\ pPlan = <<>>

\* one render resolves the plan of its props
ResolveLayout ==
  /\ pPlan = <<>>
  /\ pPlan' = <<LayoutPlan(pColor, pLayout)>>
  /\ UNCHANGED <<pColor, pLayout, outsideLayout>>

(***************************************************************************)
(* createHexagonPath                                                       *)
(***************************************************************************)
\* the double of a natural number below 2^15
FromInt(k) == Normalize([m |-> [i \in Limbs |-> IF i = 1 THEN k ELSE 0], e |-> 0])

\* Math.cos((Math.PI / 3) * 0 - Math.PI / 2) = 6.123233995736766e-17:
\* 4967757600021511 * 2^-106; Math.sin of the same angle is -1
CosTop == [m |-> <<23559, 26152, 6296, 141, 0, 0, 0, 0>>, e |-> -106]

\* the six points with the first angle 0 instead of -PI / 2
createHexagonPathNoTurn(cx, cy, radius) ==
     <<[cmd |-> "M", point |-> 0, x |-> FAdd(FromInt(cx), FromInt(radius)), y |-> cy]>>
  \o [i \in 1..5 |-> [cmd |-> "L", point |-> i]]
  \o <<[cmd |-> "Z"]>>

\* the path string as its commands: M of points[0], L of points[1..5], Z.
\* points[0] is (cx + radius * cos, cy + radius * sin) at the angle -PI / 2,
\* x a double, y the integer cy - radius; the other points keep their index
createHexagonPath(cx, cy, radius) ==
     <<[cmd |-> "M", point |-> 0,
        x |-> FAdd(FromInt(cx), FMulInt(CosTop, radius)), y |-> cy - radius]>>
  \o [i \in 1..5 |-> [cmd |-> "L", point |-> i]]
  \o <<[cmd |-> "Z"]>>

\* arguments the function is run on
HexArgs == [cx : {0, 1, 50, 100, 187}, cy : {0, 50, 100, 225}, radius : {0, 1, 10, 50, 56}]
NoHexArgs == [cx |-> 0, cy |-> 0, radius |-> 0]

InitHexagonIdle ==
  /\ hexArgs = NoHexArgs
  /\ hexSvg = <<>>

CallCreateHexagonPath ==
  /\ hexSvg = <<>>
  /\ hexSvg' = createHexagonPath(hexArgs.cx, hexArgs.cy, hexArgs.radius)
  /\ UNCHANGED <<hexArgs, outsideHexagon>>

\* event?.brandColors?.primary when the event or the colour is absent
NoColor == <<"undefined">>
\* primaryColor of a render: the ?? default applies to null and undefined only
PrimaryColor(brand) == IF brand = NoColor THEN DefaultColor ELSE brand

\* the colours one render of PosterCanvas derives from its props
RenderColors(brand, layoutProp) ==
  LET primaryColor == PrimaryColor(brand)
      layout == IF layoutProp = NoLayout THEN "modern" ELSE layoutProp
  IN [primaryColor |-> primaryColor,
      textColor |-> getContrastColor(primaryColor),
      gradientColors |-> getGradientColors(primaryColor, layout)]

\* the two hex digits of a channel, and the colours made of them
HexPairs == {<<"0", "0">>, <<"1", "6">>, <<"1", "A">>, <<"2", "E">>, <<"3", "a">>,
             <<"C", "E">>, <<"D", "A">>, <<"F", "8">>, <<"f", "f">>}
HexColors == {<<"#">> \o rr \o gg \o bb : rr \in HexPairs, gg \in HexPairs, bb \in HexPairs}
\* strings that are no '#' + 6 hex digits colour
Malformed == {<<>>, <<"r", "e", "d">>, Chars(<<"F", "F", "F">>), <<"2", "E", "C", "C", "7", "1">>,
              Chars(<<"G", "G", "G", "G", "G", "G">>), Chars(<<"1", "2", "3", "4", "5">>)}
\* values of event?.brandColors?.primary
BrandInputs == HexColors \cup Malformed \cup {NoColor}

\* one render derives the colours of its props
ResolveColors ==
  /\ pPlan = <<>>
  /\ pPlan' = <<RenderColors(pColor, pLayout)>>
  /\ UNCHANGED <<pColor, pLayout, outsideLayout>>

(***************************************************************************)
(* usePosterCreationStore, the create screens and LoadingScreen.generate   *)
(***************************************************************************)
Routes == {"home", "your-details", "event-details", "loading", "editor"}
\* initialState of the store; eventDetails is null, the submitted form
\* data, or what setEvent derived from the event
initialState ==
  [profile |-> FALSE, userDetails |-> FALSE, event |-> "null", eventDetails |-> "null",
   eventUrl |-> "", templates |-> FALSE]
\* setProfile(profile) with a non-null profile: userDetails comes from it
setProfile(st) == [st EXCEPT !.profile = TRUE, !.userDetails = TRUE]
\* setEvent(event) with a non-null event: eventDetails is derived from it
setEvent(st, event) == [st EXCEPT !.event = event, !.eventDetails = "event"]

NoRequests == [parseEvent |-> 0, createEvent |-> 0, generateTemplates |-> 0]
InitFlow ==
  /\ store = initialState
  /\ flow = [route |-> "home", inst |-> 0, via |-> "none", isGenerating |-> FALSE,
             error |-> FALSE, invoked |-> 0, seen |-> initialState, runs |-> <<>>,
             req |-> NoRequests]

\* router.push('/create/loading'): a LoadingScreen mounts; its first render
\* reads the store values that generate closes over
PushLoading(st, via) ==
  [flow EXCEPT !.route = "loading", !.inst = @ + 1, !.via = via, !.isGenerating = FALSE,
               !.error = FALSE, !.invoked = 0, !.seen = st]

\* HomeScreen.handleSelectProfile
handleSelectProfile ==
  /\ flow.route = "home"
  /\ ~store.profile
  /\ store' = setProfile(store)
  /\ UNCHANGED <<flow, outsideFlow>>

\* HomeScreen.handleGeneratePoster with a non-blank url and a profile
handleGeneratePoster ==
  /\ flow.route = "home"
  /\ store.profile
  /\ flow.inst < MaxVisits
  /\ LET st == [setProfile(initialState) EXCEPT !.eventUrl = "url"]
     IN /\ store' = st
        /\ flow' = PushLoading(st, "url")
  /\ UNCHANGED outsideFlow

\* HomeScreen.handleEnterManually
handleEnterManually ==
  /\ flow.route = "home"
  /\ store' = IF store.profile THEN setProfile(initialState) ELSE initialState
  /\ flow' = [flow EXCEPT !.route = IF store.profile THEN "event-details" ELSE "your-details"]
  /\ UNCHANGED outsideFlow

\* YourDetailsScreen.handleNext with a valid form
YourDetailsNext ==
  /\ flow.route = "your-details"
  /\ store' = [store EXCEPT !.userDetails = TRUE]
  /\ flow' = [flow EXCEPT !.route = "event-details"]
  /\ UNCHANGED outsideFlow

\* EventDetailsScreen.handleNext with a valid form
handleNext ==
  /\ flow.route = "event-details"
  /\ flow.inst < MaxVisits
  /\ LET st == [store EXCEPT !.eventDetails = "form"]
     IN /\ store' = st
        /\ flow' = PushLoading(st, "form")
  /\ UNCHANGED outsideFlow

\* the header's back button of a create screen, back to the tabs
Back ==
  /\ flow.route \in {"your-details", "event-details", "editor"}
  /\ flow' = [flow EXCEPT !.route = "home"]
  /\ UNCHANGED <<store, outsideFlow>>

\* a run of generate up to its first await, or to its return
NewRun(kind) == [inst |-> flow.inst, via |-> flow.via, kind |-> kind, pc |-> "event"]
Running(r) == r.pc \in {"event", "templates"}

\* no promise of a run of the mounted instance has settled yet: the effects
\* of a mount all run before the first continuation
Unsettled == \A r \in 1..Len(flow.runs) : flow.runs[r].inst = flow.inst => flow.runs[r].pc = "event"

\* generate() without the test of isGenerating.current
generateNoGuard ==
  /\ flow.route = "loading"
  /\ flow.invoked < MaxInvoke
  /\ Unsettled
  /\ LET c == flow.seen
         f == [flow EXCEPT !.invoked = @ + 1]
     IN IF ~(c.userDetails \/ c.profile)
        THEN /\ flow' = [f EXCEPT !.isGenerating = FALSE, !.route = "your-details"]
             /\ store' = store
        ELSE IF c.eventUrl # ""
        THEN /\ flow' = [f EXCEPT !.isGenerating = TRUE, !.runs = Append(@, NewRun("parse")),
                                  !.req.parseEvent = @ + 1]
             /\ store' = IF ~c.userDetails /\ c.profile
                         THEN [store EXCEPT !.userDetails = TRUE] ELSE store
        ELSE IF c.eventDetails # "null"
        THEN /\ flow' = [f EXCEPT !.isGenerating = TRUE, !.runs = Append(@, NewRun("create")),
                                  !.req.createEvent = @ + 1]
             /\ store' = IF ~c.userDetails /\ c.profile
                         THEN [store EXCEPT !.userDetails = TRUE] ELSE store
        ELSE /\ flow' = [f EXCEPT !.isGenerating = FALSE, !.route = "event-details"]
             /\ store' = IF ~c.userDetails /\ c.profile
                         THEN [store EXCEPT !.userDetails = TRUE] ELSE store
  /\ UNCHANGED outsideFlow

\* the mount effect runs generate(): at mount, and again when React runs
\* the mount effects of the instance a second time
generate ==
  /\ flow.route = "loading"
  /\ flow.invoked < MaxInvoke
  /\ Unsettled
  /\ LET c == flow.seen
         f == [flow EXCEPT !.invoked = @ + 1]
     IN IF flow.isGenerating
        THEN /\ flow' = f
             /\ store' = store
        ELSE IF ~(c.userDetails \/ c.profile)
        THEN /\ flow' = [f EXCEPT !.isGenerating = FALSE, !.route = "your-details"]
             /\ store' = store
        ELSE IF c.eventUrl # ""
        THEN /\ flow' = [f EXCEPT !.isGenerating = TRUE, !.runs = Append(@, NewRun("parse")),
                                  !.req.parseEvent = @ + 1]
             /\ store' = IF ~c.userDetails /\ c.profile
                         THEN [store EXCEPT !.userDetails = TRUE] ELSE store
        ELSE IF c.eventDetails # "null"
        THEN /\ flow' = [f EXCEPT !.isGenerating = TRUE, !.runs = Append(@, NewRun("create")),
                                  !.req.createEvent = @ + 1]
             /\ store' = IF ~c.userDetails /\ c.profile
                         THEN [store EXCEPT !.userDetails = TRUE] ELSE store
        ELSE /\ flow' = [f EXCEPT !.isGenerating = FALSE, !.route = "event-details"]
             /\ store' = IF ~c.userDetails /\ c.profile
                         THEN [store EXCEPT !.userDetails = TRUE] ELSE store
  /\ UNCHANGED outsideFlow

\* parseEvent or createEvent resolves: setEvent(event), then the call of
\* generateTemplates
EventResolve(r) ==
  /\ r \in 1..Len(flow.runs)
  /\ flow.runs[r].pc = "event"
  /\ store' = setEvent(store, IF flow.runs[r].kind = "parse" THEN "parsed" ELSE "created")
  /\ flow' = [flow EXCEPT !.runs[r].pc = "templates", !.req.generateTemplates = @ + 1]
  /\ UNCHANGED outsideFlow

\* the catch block: setError(message) and isGenerating.current = false
Catch(r) ==
  [flow EXCEPT !.runs[r].pc = "failed",
               !.error = IF flow.runs[r].inst = flow.inst THEN TRUE ELSE @,
               !.isGenerating = IF flow.runs[r].inst = flow.inst THEN FALSE ELSE @]

\* parseEvent or createEvent rejects
EventReject(r) ==
  /\ r \in 1..Len(flow.runs)
  /\ flow.runs[r].pc = "event"
  /\ flow' = Catch(r)
  /\ UNCHANGED <<store, outsideFlow>>

\* generateTemplates resolves: setTemplates(templates), then
\* router.replace('/create/editor')
TemplatesResolve(r) ==
  /\ r \in 1..Len(flow.runs)
  /\ flow.runs[r].pc = "templates"
  /\ store' = [store EXCEPT !.templates = TRUE]
  /\ flow' = [flow EXCEPT !.runs[r].pc = "done", !.route = "editor"]
  /\ UNCHANGED outsideFlow

\* generateTemplates rejects
TemplatesReject(r) ==
  /\ r \in 1..Len(flow.runs)
  /\ flow.runs[r].pc = "templates"
  /\ flow' = Catch(r)
  /\ UNCHANGED <<store, outsideFlow>>

\* 'Go Back' of the error view: router.replace('/create/event-details')
GoBack ==
  /\ flow.route = "loading"
  /\ flow.error
  /\ flow' = [flow EXCEPT !.route = "event-details"]
  /\ UNCHANGED <<store, outsideFlow>>

NextFlow ==
  \/ handleSelectProfile
  \/ handleGeneratePoster
  \/ handleEnterManually
  \/ YourDetailsNext
  \/ handleNext
  \/ Back
  \/ generate
  \/ \E r \in 1..Len(flow.runs) : EventResolve(r)
  \/ \E r \in 1..Len(flow.runs) : EventReject(r)
  \/ \E r \in 1..Len(flow.runs) : TemplatesResolve(r)
  \/ \E r \in 1..Len(flow.runs) : TemplatesReject(r)
  \/ GoBack

(***************************************************************************)
(* useAsync                                                                *)
(***************************************************************************)
\* the values of deps, e.g. the profileId of usePosters
DepsKeys == {"p1", "p2"}
NoRequest == [id |-> 0, key |-> "none"]
\* state before the mount, and the useState initialiser with skip unset
NoAsync ==
  [mounted |-> FALSE, isMounted |-> FALSE, key |-> "none",
   state |-> [data |-> NoRequest, isLoading |-> FALSE, error |-> NoRequest],
   inflight |-> {}, started |-> 0]
InitAsync == async = NoAsync

\* execute() up to its await: setState(prev => {...prev, isLoading: true,
\* error: null}) and the call of asyncFn() with the deps of its closure
StartRequest(a, key) ==
  [a EXCEPT !.state.isLoading = TRUE, !.state.error = NoRequest,
            !.inflight = @ \cup {[id |-> a.started + 1, key |-> key]},
            !.started = @ + 1]

\* the component mounts (one instance is followed): first render, then the
\* effect sets the ref and calls execute()
AsyncMount(key) ==
  /\ ~async.mounted
  /\ async.started = 0
  /\ async' = StartRequest([async EXCEPT !.mounted = TRUE, !.isMounted = TRUE, !.key = key,
                                         !.state = [data |-> NoRequest, isLoading |-> TRUE,
                                                    error |-> NoRequest]], key)
  /\ UNCHANGED outsideAsync

\* a render with new deps: execute is a new callback, the effect's cleanup
\* sets isMounted.current = false, the effect sets it true and calls execute()
AsyncChangeDeps(key) ==
  /\ async.mounted
  /\ key # async.key
  /\ async.started < MaxRequests
  /\ async' = StartRequest([async EXCEPT !.key = key, !.isMounted = TRUE], key)
  /\ UNCHANGED outsideAsync

\* refetch(): execute() of the last render
AsyncRefetch ==
  /\ async.mounted
  /\ async.started < MaxRequests
  /\ async' = StartRequest(async, async.key)
  /\ UNCHANGED outsideAsync

\* the promise of a request fulfils: setState({data: result, ...}) when
\* isMounted.current
AsyncResolve(q) ==
  /\ q \in async.inflight
  /\ async' = [async EXCEPT !.inflight = @ \ {q},
                            !.state = IF async.isMounted
                                      THEN [data |-> q, isLoading |-> FALSE, error |-> NoRequest]
                                      ELSE @]
  /\ UNCHANGED outsideAsync

\* the promise of a request rejects: setState({data: null, ..., error})
AsyncReject(q) ==
  /\ q \in async.inflight
  /\ async' = [async EXCEPT !.inflight = @ \ {q},
                            !.state = IF async.isMounted
                                      THEN [data |-> NoRequest, isLoading |-> FALSE, error |-> q]
                                      ELSE @]
  /\ UNCHANGED outsideAsync

\* the component unmounts: the effect's cleanup
AsyncUnmount ==
  /\ async.mounted
  /\ async' = [async EXCEPT !.mounted = FALSE, !.isMounted = FALSE]
  /\ UNCHANGED outsideAsync

NextAsync ==
  \/ \E key \in DepsKeys : AsyncMount(key)
  \/ \E key \in DepsKeys : AsyncChangeDeps(key)
  \/ AsyncRefetch
  \/ \E q \in async.inflight : AsyncResolve(q)
  \/ \E q \in async.inflight : AsyncReject(q)
  \/ AsyncUnmount

(***************************************************************************)
(* useMutation                                                             *)
(***************************************************************************)
NoCall == [id |-> 0]
\* the useState initialiser; data and error hold the mutate call whose
\* result or error they are
InitMutation ==
  mutation = [state |-> [data |-> NoCall, isLoading |-> FALSE, error |-> NoCall,
                         isSuccess |-> FALSE],
              inflight |-> {}, calls |-> 0, lastResult |-> NoCall]

\* mutate(variables) up to its await
Mutate ==
  /\ mutation.calls < MaxCalls
  /\ mutation' = [mutation EXCEPT
        !.state = [data |-> NoCall, isLoading |-> TRUE, error |-> NoCall, isSuccess |-> FALSE],
        !.inflight = @ \cup {[id |-> mutation.calls + 1]},
        !.calls = @ + 1]
  /\ UNCHANGED outsideMutation

\* mutationFn fulfils (isMounted.current is never set to false)
MutateResolve(c) ==
  /\ c \in mutation.inflight
  /\ mutation' = [mutation EXCEPT
        !.state = [data |-> c, isLoading |-> FALSE, error |-> NoCall, isSuccess |-> TRUE],
        !.inflight = @ \ {c},
        !.lastResult = c]
  /\ UNCHANGED outsideMutation

\* mutationFn rejects
MutateReject(c) ==
  /\ c \in mutation.inflight
  /\ mutation' = [mutation EXCEPT
        !.state = [data |-> NoCall, isLoading |-> FALSE, error |-> c, isSuccess |-> FALSE],
        !.inflight = @ \ {c}]
  /\ UNCHANGED outsideMutation

\* reset()
MutationReset ==
  /\ mutation.calls > 0
  /\ mutation' = [mutation EXCEPT
        !.state = [data |-> NoCall, isLoading |-> FALSE, error |-> NoCall, isSuccess |-> FALSE]]
  /\ UNCHANGED outsideMutation

NextMutation ==
  \/ Mutate
  \/ \E c \in mutation.inflight : MutateResolve(c)
  \/ \E c \in mutation.inflight : MutateReject(c)
  \/ MutationReset

(***************************************************************************)
(* useProfiles                                                             *)
(***************************************************************************)
\* a Profile: its id and its isDefault
Profile(id, isDefault) == [id |-> id, isDefault |-> isDefault]
NoMutation == [op |-> "none", id |-> 0]
RECURSIVE Map(_, _), Filter(_, _)
\* prev.map(p => p.id === response.id ? response : p)
Map(list, response) ==
  IF list = <<>> THEN <<>>
  ELSE <<IF Head(list).id = response.id THEN response ELSE Head(list)>>
       \o Map(Tail(list), response)
\* prev.filter(p => p.id !== id)
Filter(list, id) ==
  IF list = <<>> THEN <<>>
  ELSE (IF Head(list).id # id THEN <<Head(list)>> ELSE <<>>) \o Filter(Tail(list), id)
Ids(list) == {list[i].id : i \in 1..Len(list)}
Defaults(list) == {i \in 1..Len(list) : list[i].isDefault}

\* the lists getAll() can have answered: ids in order, at most one default
LoadedLists ==
  {<<>>} \cup {<<Profile(1, d)>> : d \in BOOLEAN}
         \cup {<<Profile(1, d1), Profile(2, d2)>> : d1 \in BOOLEAN, d2 \in {FALSE}}
         \cup {<<Profile(1, FALSE), Profile(2, TRUE)>>}

\* createProfile resolves with the profile the server made; its isDefault
\* is the one of the CreateProfileDto
CreateProfileOk(isDefault) ==
  /\ profiles.next <= MaxProfiles
  /\ profiles' = [list |-> Append(profiles.list, Profile(profiles.next, isDefault)),
                  next |-> profiles.next + 1,
                  last |-> [op |-> "create", id |-> profiles.next]]
  /\ UNCHANGED outsideProfiles

\* updateProfile(id, data) resolves with the updated profile
UpdateProfileOk(id, isDefault) ==
  /\ id \in Ids(profiles.list)
  /\ profiles' = [profiles EXCEPT !.list = Map(@, Profile(id, isDefault)),
                                  !.last = [op |-> "update", id |-> id]]
  /\ UNCHANGED outsideProfiles

\* deleteProfile(id) resolves
DeleteProfileOk(id) ==
  /\ id \in Ids(profiles.list)
  /\ profiles' = [profiles EXCEPT !.list = Filter(@, id),
                                  !.last = [op |-> "delete", id |-> id]]
  /\ UNCHANGED outsideProfiles

\* setDefaultProfile(id) resolves: isDefault of each p is p.id === id
SetDefaultProfileOk(id) ==
  /\ id \in Ids(profiles.list)
  /\ profiles' = [profiles EXCEPT
        !.list = [i \in 1..Len(@) |-> Profile(@[i].id, @[i].id = id)],
        !.last = [op |-> "setDefault", id |-> id]]
  /\ UNCHANGED outsideProfiles

NextProfiles ==
  \/ \E isDefault \in BOOLEAN : CreateProfileOk(isDefault)
  \/ \E id \in 1..MaxProfiles, isDefault \in BOOLEAN : UpdateProfileOk(id, isDefault)
  \/ \E id \in 1..MaxProfiles : DeleteProfileOk(id)
  \/ \E id \in 1..MaxProfiles : SetDefaultProfileOk(id)

InitProfilesIdle == profiles = [list |-> <<>>, next |-> 1, last |-> NoMutation]
InitHooks == InitFlow /\ InitAsync /\ InitMutation /\ InitProfilesIdle

Init ==
  /\ InitPoster /\ InitExport /\ InitLayoutIdle /\ InitMulti /\ InitSkia /\ InitHexagonIdle
  /\ InitHooks

\* the descriptor the url-change runs are made with: an event with a date
\* and a location, a user with a company
FullDesc == [event |-> TRUE, startDate |-> TRUE, location |-> TRUE, company |-> TRUE]
AllUrls == [Hooks -> Urls \cup {NoUrl}]

\* PosterCanvas with fonts available at mount, whose image urls change
Next ==
  \/ \E us \in AllUrls : Mount(us, FontSet, FullDesc, "hexagon")
  \/ /\ AfterEffects.nFetch <= MaxUrlFetch
     /\ FlushEffects
  \/ \E h \in Hooks, u \in Urls \cup {NoUrl} : ChangeUrl(h, u)
  \/ \E l \in loads : LoadOk(l)
  \/ \E l \in loads : LoadFail(l)
  \/ Unmount

Spec == Init /\ [][Next]_vars

\* every operation of the image-loader module: the hooks of mounted
\* canvases and clearImageCache
NextCache ==
  \/ \E us \in AllUrls : Mount(us, FontSet, FullDesc, "hexagon")
  \/ FlushEffects
  \/ \E l \in loads : LoadOk(l)
  \/ \E l \in loads : LoadFail(l)
  \/ Unmount
  \/ ClearImageCache

SpecCache == Init /\ [][NextCache]_vars

\* a component that calls useMultipleImages
SpecMulti == Init /\ [][NextMulti]_vars

\* the components under <Suspense> that wait for Skia
SpecSkia == Init /\ [][NextSkia]_vars

\* PosterCanvas with fonts available at mount, for every descriptor
NextCanvas ==
  \/ /\ inst < MaxSession
     /\ \E us \in AllUrls, d \in Descs, p \in HexPaths : Mount(us, FontSet, d, p)
  \/ FlushEffects
  \/ \E l \in loads : LoadOk(l)
  \/ \E l \in loads : LoadFail(l)
  \/ Unmount

SpecCanvas == Init /\ [][NextCanvas]_vars

\* PosterCanvas with a user photo, rendered again with new sizes and texts
PhotoUrls == {us \in AllUrls : us["logo"] = NoUrl /\ us["hero"] = NoUrl}
NextResize ==
  \/ /\ inst < MaxSession
     /\ \E us \in PhotoUrls, d \in Descs, p \in HexPaths : Mount(us, FontSet, d, p)
  \/ FlushEffects
  \/ \E l \in loads : LoadOk(l)
  \/ \E l \in loads : LoadFail(l)
  \/ \E size \in Sizes, d \in Descs, p \in HexPaths : Rerender(size, d, p)
  \/ Unmount

SpecResize == Init /\ [][NextResize]_vars

\* the readers of the Skia loader, and the photo hook of the PosterCanvas
\* that is rendered under <Suspense> once AsyncSkia has returned
NextRetry ==
  \/ /\ skia.out["AsyncSkia"] = "output"
     /\ \E us \in PhotoUrls : Mount(us, FontSet, FullDesc, "hexagon")
  \/ FlushEffects
  \/ \E u \in Urls \cup {NoUrl} : ChangeUrl("photo", u)
  \/ \E l \in loads : LoadOk(l)
  \/ \E l \in loads : LoadFail(l)
  \/ Unmount
  \/ \E c \in SkiaReaders : getSuspendingPromise(c)
  \/ LoadSkiaWebResolve
  \/ LoadSkiaWebReject

SpecRetry == Init /\ [][NextRetry]_vars

\* the home screen, the create screens and the loading screen
SpecFlow == Init /\ [][NextFlow]_vars

\* a component that calls useAsync, and one that calls useMutation
SpecAsync == Init /\ [][NextAsync]_vars
SpecMutation == Init /\ [][NextMutation]_vars

\* useProfiles after getAll() has answered with any list of at most one default
InitProfiles ==
  /\ InitPoster /\ InitExport /\ InitLayoutIdle /\ InitMulti /\ InitSkia /\ InitHexagonIdle
  /\ InitFlow /\ InitAsync /\ InitMutation
  /\ \E list \in LoadedLists :
        profiles = [list |-> list, next |-> Len(list) + 1, last |-> NoMutation]

SpecProfiles == InitProfiles /\ [][NextProfiles]_vars

\* PosterCanvas of a descriptor without image urls, fonts polled
NextFonts ==
  \/ /\ inst < MaxSession
     /\ \E f \in TryLoadFonts, d \in Descs, p \in HexPaths :
           Mount([h \in Hooks |-> NoUrl], f, d, p)
  \/ FlushEffects
  \/ \E i \in Insts, loaded \in TryLoadFonts : TryLoad(i, loaded)
  \/ Unmount

SpecFonts == Init /\ [][NextFonts]_vars

\* the export screen alone
SpecExport == Init /\ [][NextExport]_vars

\* the editor's PosterCanvas stays mounted under the export screen, which
\* is pushed once the canvas is shown
NextApp ==
  \/ \E us \in AllUrls : Mount(us, FontSet, FullDesc, "hexagon")
  \/ FlushEffects
  \/ \E l \in loads : LoadOk(l)
  \/ \E l \in loads : LoadFail(l)
  \/ /\ mounted
     /\ \A g \in Hooks : ~effectPending[g]
     /\ OpenExport
  \/ ExportPress
  \/ \E r \in 1..Len(runs) : DelayElapsed(r)
  \/ \E r \in 1..Len(runs) : ShareResolve(r)
  \/ \E r \in 1..Len(runs) : ShareReject(r)
  \/ CloseExport

SpecApp == Init /\ [][NextApp]_vars

\* the layout resolution on every colour and layout name
InitLayout ==
  /\ InitPoster /\ InitExport /\ InitMulti /\ InitSkia /\ InitHexagonIdle /\ InitHooks
  /\ pColor \in Colors
  /\ pLayout \in LayoutProps
  /\ pPlan = <<>>

SpecLayout == InitLayout /\ [][ResolveLayout]_vars

\* the colour derivation on every brand colour and layout
InitColor ==
  /\ InitPoster /\ InitExport /\ InitMulti /\ InitSkia /\ InitHexagonIdle /\ InitHooks
  /\ pColor \in BrandInputs
  /\ pLayout \in KnownLayouts \cup {NoLayout}
  /\ pPlan = <<>>

SpecColor == InitColor /\ [][ResolveColors]_vars

\* createHexagonPath on every argument
InitHexagon ==
  /\ InitPoster /\ InitExport /\ InitLayoutIdle /\ InitMulti /\ InitSkia /\ InitHooks
  /\ hexArgs \in HexArgs
  /\ hexSvg = <<>>

SpecHexagon == InitHexagon /\ [][CallCreateHexagonPath]_vars

\* every pending setTimeout callback is eventually run by the event loop
FairFonts == SpecFonts /\ \A i \in Insts : WF_vars(\E loaded \in TryLoadFonts : TryLoad(i, loaded))

(***************************************************************************)
(* Properties of useImageLoader                                            *)
(***************************************************************************)
NoEffectPending == \A g \in Hooks : ~effectPending[g]

\* C1: the image a mounted hook exposes is null or a decoded image of the
\* hook's current url (no result of a superseded load is ever applied).
C1_ImageOfCurrentUrl ==
  (mounted /\ NoEffectPending) =>
     \A h \in Hooks : image[h] = NoImage \/ image[h].url = url[h]

\* C2: when the load of the hook's current url has failed, the hook exposes
\* null for that url, whatever it exposed before.
C2_FailedLoadExposesNull ==
  (mounted /\ NoEffectPending) =>
     \A h \in Hooks : settled[h] = "failed" => image[h] = NoImage

\* C3: whenever the hook runs (first render or [url] effect) for a url whose
\* cache entry holds an image, it exposes the cached handle, and no fetch is
\* ever issued for a url whose cache entry holds an image.
C3_CacheHitNoFetch ==
  [][ /\ \A l \in loads' \ loads : imageCache[l.url] = NoImage
      /\ \A h \in Hooks :
           (mounted /\ effectPending[h] /\ ~effectPending'[h]
              /\ url[h] # NoUrl /\ imageCache[url[h]] # NoImage)
           => (image'[h] = imageCache[url[h]] /\ nFetch' - nFetch = Cardinality(loads' \ loads)
               /\ \A l \in loads' \ loads : l.hook # h)
      /\ \A h \in Hooks :
           (~mounted /\ mounted' /\ url'[h] # NoUrl /\ imageCache[url'[h]] # NoImage)
           => (image'[h] = imageCache[url'[h]] /\ loads' = loads)
    ]_vars

\* a second instance whose hook found its url cached and started no load
C3_Witness ==
  /\ mounted /\ inst = 2 /\ NoEffectPending /\ loads = {} /\ nFetch = 1
  /\ \E h \in Hooks : url[h] # NoUrl /\ settled[h] = "idle"
                      /\ image[h] # NoImage /\ image[h] = imageCache[url[h]]

\* C4: a hook whose url is undefined or empty exposes null (and no load is
\* ever started for an absent url).
C4_AbsentUrlExposesNull ==
  /\ \A l \in loads : l.url # NoUrl
  /\ (mounted /\ NoEffectPending) =>
        \A h \in Hooks : url[h] = NoUrl => image[h] = NoImage

\* C19: every effect that finds its url uncached issues a fetch of its own,
\* so k hooks with the same uncached url start k loads; the cache entry of
\* a url changes only when a load of that url succeeds, and it is then the
\* image of that load, also over the image of an earlier load.
C19_NoSingleFlight ==
  [][ /\ ((\E h \in Hooks : effectPending[h]) /\ (\A h \in Hooks : ~effectPending'[h])) =>
           /\ nFetch' - nFetch = Cardinality(loads' \ loads)
           /\ \A u \in Urls :
                 Cardinality({l \in loads' \ loads : l.url = u}) =
                    IF imageCache[u] = NoImage
                    THEN Cardinality({h \in Hooks : effectPending[h] /\ url[h] = u})
                    ELSE 0
      /\ \A u \in Urls :
           imageCache'[u] # imageCache[u] =>
              /\ lastOk' # lastOk /\ lastOk'.url = u /\ lastOk' \in loads \ loads'
              /\ imageCache'[u] = [url |-> u, id |-> lastOk'.id]
      /\ lastOk' # lastOk => imageCache'[lastOk'.url] = [url |-> lastOk'.url, id |-> lastOk'.id]
    ]_vars

\* two loads of one url have succeeded, the one issued first resolving last:
\* the cache holds its image, the other hook shows the image of its own load
C19_Witness ==
  /\ mounted /\ loads = {}
  /\ \E h1, h2 \in Hooks :
        /\ url[h1] = url[h2] /\ settled[h1] = "ok" /\ settled[h2] = "ok"
        /\ image[h1].id < image[h2].id
        /\ curLoad[h1] = image[h1].id /\ curLoad[h2] = image[h2].id
        /\ imageCache[url[h1]] = image[h1] /\ lastOk.id = image[h1].id

\* C20: a load that succeeds writes its image in the cache under its own
\* url whether or not its component is still mounted and whether or not its
\* url is still the hook's; when its component is unmounted no hook state
\* changes.
C20_CacheWriteNotGated ==
  [][ lastOk' # lastOk =>
        /\ lastOk' \in loads \ loads'
        /\ imageCache'[lastOk'.url] = [url |-> lastOk'.url, id |-> lastOk'.id]
        /\ \A u \in Urls \ {lastOk'.url} : imageCache'[u] = imageCache[u]
        /\ ~mountedRef[lastOk'.inst] => (image' = image /\ settled' = settled /\ url' = url)
    ]_vars

\* the load of the first instance succeeded after the second instance was
\* mounted: the cache holds its image, the new hook of that url still null
C20_Witness ==
  /\ mounted /\ inst = 2 /\ lastOk.inst = 1
  /\ imageCache[lastOk.url] = [url |-> lastOk.url, id |-> lastOk.id]
  /\ \E h \in Hooks : effectPending[h] /\ url[h] = lastOk.url /\ image[h] = NoImage

\* C11: a cache entry that holds a decoded image holds a decoded image
\* after every step of the module (it is never removed or set to null).
C11_CacheEntryNeverCleared ==
  [][\A u \in Urls : imageCache[u] # NoImage => imageCache'[u] # NoImage]_vars

\* C12: the list useMultipleImages exposes has the length of its urls
\* argument, and index i holds null or a decoded image of urls[i], null when
\* urls[i] is absent.
C12_ListMatchesUrls ==
  (multi.mounted /\ ~multi.effectPending) =>
     /\ Len(multi.images) = Len(multi.urls)
     /\ \A i \in 1..Len(multi.images) :
           /\ i <= Len(multi.urls) =>
                (multi.images[i] = NoImage \/ multi.images[i].url = multi.urls[i])
           /\ (i <= Len(multi.urls) /\ multi.urls[i] = NoUrl) => multi.images[i] = NoImage

(***************************************************************************)
(* Properties of PosterCanvas and useSkiaFonts                             *)
(***************************************************************************)
TextLayers == {"eventName", "date", "badgeText", "userName", "userTitle", "company", "location"}
LayerNames(out) == [i \in 1..Len(out.layers) |-> out.layers[i].layer]
Has(out, name) == \E i \in 1..Len(out.layers) : out.layers[i].layer = name

\* C5: while fonts is null the render is the placeholder view with no canvas
\* layer at all, and every Text that is drawn carries a font of a FontSet.
C5_NoTextWithoutFonts ==
  mounted =>
    /\ fonts = NoFonts => (Output.kind = "placeholder" /\ Output.layers = <<>>)
    /\ Output.kind = "canvas" => fonts = FontSet
    /\ \A i \in 1..Len(Output.layers) :
          Output.layers[i].layer \in TextLayers => Output.layers[i].font # "null"

\* the placeholder is shown while the poll is still failing
C5_Witness ==
  mounted /\ fonts = NoFonts /\ poll[inst].attempts >= 2 /\ Output.kind = "placeholder"

C6_Safe ==
  \A i \in Insts :
    /\ poll[i].fired <= maxAttempts
    /\ poll[i].attempts <= maxAttempts
    /\ poll[i].timer # "none" => (poll[i].delay = RetryDelayMs /\ poll[i].attempts < maxAttempts)
    /\ poll[i].attempts = maxAttempts =>
          /\ poll[i].timer = "none"
          /\ (mounted /\ inst = i) => (fonts = NoFonts /\ Output.kind = "placeholder")

C6_BoundedPoll ==
  /\ []C6_Safe
  /\ \A i \in Insts : (poll[i].timer # "none") ~> (poll[i].timer = "none")

\* the budget is used up: 20 failed retries, no timer left, placeholder shown
C6_Witness ==
  mounted /\ poll[inst].attempts = maxAttempts /\ poll[inst].fired = maxAttempts
  /\ poll[inst].timer = "none" /\ fonts = NoFonts

\* the one order of the layers in the source
LayerOrder == <<"fill", "gradient", "hero", "logo", "eventName", "date", "badgeRect",
                "badgeText", "photo", "placeholder", "outline", "userName", "userTitle",
                "company", "location">>
Pos(name) == CHOOSE k \in 1..Len(LayerOrder) : LayerOrder[k] = name
IsOrdered(names) ==
  /\ \A i \in 1..Len(names) : \E k \in 1..Len(LayerOrder) : LayerOrder[k] = names[i]
  /\ \A i, j \in 1..Len(names) : i < j => Pos(names[i]) < Pos(names[j])

C13_SuspendUntilSkiaLoaded ==
  [][ /\ \A c \in SkiaReaders :
           /\ skia'.out[c] = "output" => skia'.status = "success"
           /\ skia'.out[c] = "error" => skia'.status = "error"
           /\ (skia'.nRender # skia.nRender /\ skia'.last = c) =>
                 /\ skia'.status = "pending" => skia'.out[c] = "suspended"
                 /\ skia'.status = "error" => skia'.out[c] = "error"
                 /\ skia'.status = "success" => skia'.out[c] = "output"
      /\ skia.status # skia'.status =>
           \/ skia.status = NoLoader /\ skia'.status = "pending"
           \/ skia.status = "pending" /\ skia'.status \in {"success", "error"}
    ]_vars

\* the load failed: PosterCanvas rendered after it and threw the error,
\* AsyncSkia rendered last while the load was pending
C13_Witness ==
  /\ skia.status = "error"
  /\ skia.out["PosterCanvas"] = "error" /\ skia.out["AsyncSkia"] = "suspended"

(***************************************************************************)
(* Properties of the export screen                                         *)
(***************************************************************************)
\* C8: no run of handleExport is at its share step while an image load of
\* the poster is still in flight.
C8_ShareAfterLoadsSettled ==
  \A r \in 1..Len(runs) : runs[r].pc = "share" => loads = {}

InFlight(r) == runs[r].pc # "done"

\* C9: isExporting is true only while a run started on the mounted screen is
\* in flight, so every finished run has reset it; a run whose share step
\* threw has shown one 'Export Failed' alert and no 'Poster Ready!' alert,
\* a run whose share step resolved the reverse, an unfinished run neither.
C9_ExportAlwaysResets ==
  /\ (expMounted /\ isExporting) =>
        \E r \in 1..Len(runs) : runs[r].inst = expInst /\ InFlight(r)
  /\ \A r \in 1..Len(runs) :
        /\ (runs[r].pc = "done" /\ runs[r].shared = "rejected") =>
              (runs[r].failed = 1 /\ runs[r].ready = 0)
        /\ (runs[r].pc = "done" /\ runs[r].shared = "ok") =>
              (runs[r].failed = 0 /\ runs[r].ready = 1)
        /\ InFlight(r) => (runs[r].failed = 0 /\ runs[r].ready = 0 /\ runs[r].shared = "none")
        /\ runs[r].pc = "done" => runs[r].shared # "none"

\* a run on the mounted screen failed and the busy state is cleared
C9_Witness ==
  /\ expMounted /\ ~isExporting
  /\ \E r \in 1..Len(runs) :
        runs[r].inst = expInst /\ runs[r].pc = "done" /\ runs[r].shared = "rejected"

(***************************************************************************)
(* Properties of the layout resolution                                     *)
(***************************************************************************)
\* C10: the resolution gives a plan for every layout name, and for every
\* name other than classic, modern, minimal and bold it is the plan of
\* 'modern', gradient included.
C10_UnknownLayoutIsModern ==
  pPlan # <<>> =>
     (pLayout \notin KnownLayouts => pPlan[1] = LayoutPlan(pColor, "modern"))

(***************************************************************************)
(* Properties of the colour derivation                                     *)
(***************************************************************************)
IsHexColor(str) ==
  /\ Len(str) = 7
  /\ str[1] = "#"
  /\ \A k \in 2..7 : IsHexDigit(str[k])

\* C14: the colour every derived colour is computed from is a '#' + 6 hex
\* digits colour in every render, the default when the brand colour is absent.
C14_PrimaryColorValid ==
  pPlan # <<>> =>
     /\ IsHexColor(pPlan[1].primaryColor)
     /\ pColor = NoColor => pPlan[1].primaryColor = DefaultColor

\* the channel of a '#' + 6 hex digits colour that starts at digit k
Channel(str, k) == 16 * DigitValue(str[k]) + DigitValue(str[k + 1])

\* C16: for a '#' + 6 hex digits colour with channels R, G, B the text
\* colour is #FFFFFF when 299R + 587G + 114B <= 127500 and #1A1A2E
\* otherwise, whatever the layout.
C16_ContrastByLuminance ==
  (pPlan # <<>> /\ IsHexColor(pPlan[1].primaryColor)) =>
     LET c == pPlan[1].primaryColor
         weighted == 299 * Channel(c, 2) + 587 * Channel(c, 4) + 114 * Channel(c, 6)
     IN pPlan[1].textColor = IF weighted <= 127500 THEN LightColor ELSE DarkColor

\* C17: for a '#' + 6 hex digits colour with channels r, g, b the gradient
\* is [input, input] for minimal, [input, rgba(r, g, b, 0.7)] for modern,
\* [rgb of floor(0.8 r), floor(0.8 g), floor(0.8 b), input] for bold and
\* [input, rgb of min(r + 40, 255), ...] for classic, and every channel it
\* writes is an integer of 0..255.
C17_GradientStops ==
  (pPlan # <<>> /\ IsHexColor(pPlan[1].primaryColor)) =>
     LET c == pPlan[1].primaryColor
         r == Channel(c, 2)
         g == Channel(c, 4)
         b == Channel(c, 6)
         layout == IF pLayout = NoLayout THEN "modern" ELSE pLayout
         Min255(x) == IF x < 255 THEN x ELSE 255
         stops == pPlan[1].gradientColors
     IN /\ layout = "minimal" => stops = <<HexColor(c), HexColor(c)>>
        /\ layout = "modern" => stops = <<HexColor(c), RgbaColor(r, g, b, "0.7")>>
        /\ layout = "bold" =>
              stops = <<RgbColor((8 * r) \div 10, (8 * g) \div 10, (8 * b) \div 10), HexColor(c)>>
        /\ layout = "classic" =>
              stops = <<HexColor(c), RgbColor(Min255(r + 40), Min255(g + 40), Min255(b + 40))>>
        /\ \A k \in 1..2 : stops[k].r \in 0..255 /\ stops[k].g \in 0..255 /\ stops[k].b \in 0..255

\* a classic gradient whose red channel was clamped, a bold one rounded down
C17_Witness ==
  /\ pPlan # <<>> /\ IsHexColor(pPlan[1].primaryColor)
  /\ \/ /\ pLayout = "classic" /\ Channel(pPlan[1].primaryColor, 2) = 248
        /\ pPlan[1].gradientColors[2].r = 255 /\ pPlan[1].gradientColors[2].b = 62
     \/ /\ pLayout = "bold" /\ Channel(pPlan[1].primaryColor, 2) = 46
        /\ pPlan[1].gradientColors[1].r = 36

(***************************************************************************)
(* Properties of createHexagonPath                                         *)
(***************************************************************************)
\* one move-to of point 0, five line-to of the points 1..5 in order, a close
SixVerticesClosed(path) ==
  /\ Len(path) = 7
  /\ path[1].cmd = "M" /\ path[1].point = 0
  /\ \A i \in 1..5 : path[i + 1].cmd = "L" /\ path[i + 1].point = i
  /\ path[7].cmd = "Z"

\* C18 as stated: for every argument the path has 6 vertices and is closed,
\* and its first vertex is exactly (cx, cy - radius).
C18_FirstVertexExact ==
  hexSvg # <<>> =>
     /\ SixVerticesClosed(hexSvg)
     /\ hexSvg[1].x = FromInt(hexArgs.cx)
     /\ hexSvg[1].y = hexArgs.cy - hexArgs.radius

\* C18: for every argument, radius 0 included, the path has 6 vertices (one
\* move-to, five line-to) and is closed; the y of its first vertex is
\* cy - radius, and its x is cx when radius = 0 or 2 * radius <= cx, so
\* (100, 100, 50) gives (100, 50); for cx = 0 and radius > 0 the x is not cx.
C18_FirstVertexTop ==
  hexSvg # <<>> =>
     /\ SixVerticesClosed(hexSvg)
     /\ hexSvg[1].y = hexArgs.cy - hexArgs.radius
     /\ (hexArgs.radius = 0 \/ 2 * hexArgs.radius <= hexArgs.cx) =>
           hexSvg[1].x = FromInt(hexArgs.cx)
     /\ (hexArgs.cx = 0 /\ hexArgs.radius > 0) => hexSvg[1].x # FromInt(hexArgs.cx)

\* the path of (100, 100, 50) starts at (100, 50)
C18_Witness ==
  /\ hexArgs = [cx |-> 100, cy |-> 100, radius |-> 50]
  /\ hexSvg # <<>> /\ hexSvg[1].x = FromInt(100) /\ hexSvg[1].y = 50

\* C21: in every render the photo or the placeholder is drawn under the
\* clip exactly when the outline is drawn, exactly when hexPath is non-null,
\* and the clip and the outline are that one hexPath; hexPath is
\* made again only in a render whose width, photoY or photoRadius differs
\* from the last render's.
LayersNamed(names) == {i \in 1..Len(Output.layers) : Output.layers[i].layer \in names}
C21_OneHexPath ==
  /\ [](Output.kind = "canvas" =>
          /\ Cardinality(LayersNamed({"photo", "placeholder"})) =
                (IF hexPath # "null" THEN 1 ELSE 0)
          /\ Cardinality(LayersNamed({"outline"})) = (IF hexPath # "null" THEN 1 ELSE 0)
          /\ Has(Output, "photo") <=> (hexPath # "null" /\ image["photo"] # NoImage)
          /\ \A i \in 1..Len(Output.layers) :
                Output.layers[i].path =
                   (IF Output.layers[i].layer \in {"photo", "placeholder", "outline"}
                    THEN hexPath ELSE "none"))
  /\ [][(mounted /\ mounted') =>
          /\ memo'.calls # memo.calls => memo'.deps # memo.deps
          /\ hexPath' # hexPath => memo'.calls # memo.calls]_vars

\* the canvas shows the photo under the clip and the outline after the
\* path was made a second time for a new size
C21_Witness ==
  /\ Output.kind = "canvas" /\ memo.calls = 2 /\ memo.deps # Deps(PreviewSize)
  /\ Has(Output, "photo") /\ Has(Output, "outline")

\* C22: while a PosterCanvas is mounted its font set, once non-null, stays
\* the same and no tryLoad of that instance runs any more; a tryLoad that
\* calls setFonts arms no timer, and a chain without a timer never runs
\* again, so setFonts is called at most once per instance.
C22_FontsReadyOnce ==
  [][ /\ (mounted /\ mounted' /\ inst' = inst /\ fonts # NoFonts) =>
            (fonts' = fonts /\ poll'[inst] = poll[inst])
      /\ \A i \in Insts :
            /\ (poll'[i].fired # poll[i].fired /\ poll'[i].attempts = poll[i].attempts) =>
                  poll'[i].timer = "none"
            /\ (poll[i].timer = "none" /\ poll[i].fired > 0) => poll'[i] = poll[i]
    ]_vars

\* the fonts became ready in the third tryLoad of the mounted instance
C22_Witness ==
  /\ mounted /\ fonts = FontSet
  /\ poll[inst].fired = 3 /\ poll[inst].attempts = 2 /\ poll[inst].timer = "none"

\* C23: a fetch is issued only by the [url] effect of its hook, and that
\* effect is scheduled only by a mount or by a change of the hook's url, so
\* a hook whose load failed fetches nothing more until then; LoadSkiaWeb()
\* is called at most once, whatever the outcome and however many renders.
C23_NoAutomaticRetry ==
  /\ [](skia.nLoad <= 1 /\ (skia.nLoad = 0 <=> skia.status = NoLoader))
  /\ [][ /\ \A l \in loads' \ loads : effectPending[l.hook] /\ ~effectPending'[l.hook]
         /\ nFetch' - nFetch = Cardinality(loads' \ loads)
         /\ \A h \in Hooks :
               (effectPending'[h] /\ ~effectPending[h]) => (url'[h] # url[h] \/ inst' # inst)
         /\ \A h \in Hooks :
               (settled[h] = "failed" /\ ~effectPending[h] /\ url'[h] = url[h] /\ inst' = inst
                  /\ mounted') =>
                  (settled'[h] = "failed" /\ nFetch' = nFetch)
       ]_vars

\* the photo load failed, and both readers of the one Skia loader have
\* rendered four times or more
C23_Witness ==
  /\ mounted /\ settled["photo"] = "failed" /\ loads = {} /\ nFetch = 1
  /\ skia.status = "success" /\ skia.nLoad = 1 /\ skia.nRender >= 4
  /\ \A c \in SkiaReaders : skia.out[c] = "output"

\* C24: at most one run of generate is between its start and its end; an
\* invocation of generate made while a run is in progress starts no run and
\* issues no request; generateTemplates is called only in the step that
\* stores the event of its run, and the editor is entered only in the step
\* that stores the templates.
RunsInProgress == {r \in 1..Len(flow.runs) : Running(flow.runs[r])}
C26_ManualSubmitCreates ==
  \A r \in 1..Len(flow.runs) : flow.runs[r].via = "form" => flow.runs[r].kind = "create"

\* C25: an instance of PosterCanvas that has unmounted has no retry timer
\* pending, so no tryLoad of it runs after the unmount.
C25_TimersCancelledOnUnmount ==
  \A i \in Insts : (i <= inst /\ ~(mounted /\ inst = i)) => poll[i].timer = "none"

\* C27: when no request of a mounted useAsync hook is in flight, isLoading
\* is false and data or error is the outcome of the request started last.
C27_LastRequestWins ==
  (async.mounted /\ async.inflight = {} /\ async.started > 0) =>
     /\ ~async.state.isLoading
     /\ async.started \in {async.state.data.id, async.state.error.id}

\* C28: isLoading is true while a mutate call is in flight; isSuccess comes
\* with no error and the last result; isLoading comes with null data, null
\* error and isSuccess false.
C28_MutationState ==
  /\ mutation.inflight # {} => mutation.state.isLoading
  /\ mutation.state.isSuccess =>
        (mutation.state.error = NoCall /\ mutation.state.data = mutation.lastResult)
  /\ mutation.state.isLoading =>
        (mutation.state.data = NoCall /\ mutation.state.error = NoCall
           /\ ~mutation.state.isSuccess)

\* C29: at most one profile of the local list has isDefault = true, and
\* after a successful setDefaultProfile(id) the defaults are exactly the
\* profile with that id.
C29_OneDefault ==
  /\ Cardinality(Defaults(profiles.list)) <= 1
  /\ profiles.last.op = "setDefault" =>
        \A i \in 1..Len(profiles.list) :
           profiles.list[i].isDefault <=> profiles.list[i].id = profiles.last.id

\* C30: of the runs of handleExport started on one export screen at most
\* one is in flight; while the mounted screen has isExporting its button is
\* disabled; and Share.share is called by a run only when no other run of
\* its screen is in flight.
RunsOf(i) == {r \in 1..Len(runs) : runs[r].inst = i /\ InFlight(r)}
====
